---- MODULE Spec2Model ----
(***************************************************************************)
(* A model of three pieces of the agent:                                   *)
(*                                                                         *)
(*  - component/prometheus/relabel: the prometheus.relabel component, its  *)
(*    LRU cache of relabelled series, its counters and its four            *)
(*    interceptor hooks (specification SpecRelabel);                       *)
(*  - pkg/util/unregisterer.go: the Unregisterer wrapper around a          *)
(*    Prometheus registry (specification SpecUnreg);                       *)
(*  - pkg/flow/internal/controller/node_config_import.go: the import       *)
(*    node, its content updates and its published module content           *)
(*    (specification SpecImport), and the goroutines that call one node    *)
(*    at the same time (specification SpecImportRace), and the goroutines  *)
(*    of its Run (specification SpecRun).                                  *)
(*                                                                         *)
(* Each specification leaves the other pieces' variables unchanged.        *)
(***************************************************************************)
EXTENDS Integers, Sequences, FiniteSets, TLC

VARIABLES
    \* ---- prometheus.relabel (Component, relabel.go:74-91)
    mrc,              \* c.mrc: the relabel rules in force
    cache,            \* c.cache entries, most recently used first
    cacheCap,         \* capacity c.cache was built with
    cacheHits,        \* c.cacheHits
    cacheMisses,      \* c.cacheMisses
    cacheDeletes,     \* c.cacheDeletes
    cacheSize,        \* c.cacheSize (gauge)
    metricsOutgoing,  \* c.metricsOutgoing
    exited,           \* c.exited
    last,             \* the last call made on the component and what it returned
    hist,             \* what has been sent since New: history of the calls
    \* ---- Unregisterer (unregisterer.go:12-15) and the registry it wraps
    cs,               \* u.cs of every wrapper
    registry,         \* the Prometheus registry the wrappers wrap
    ulast,            \* the last call made on a wrapper and what it returned
    ucalls,           \* number of calls made on the wrappers
    \* ---- ImportConfigNode (node_config_import.go:24-47) and its surroundings
    files,            \* the module files the import sources read
    nodes,            \* every ImportConfigNode built so far, by address
    ictl,             \* the controller's side: notifications, clock, what runs
    ilast,            \* the last call made on an import node and its outcome
    \* ---- one import node and the goroutines that call it
    gpc,                 \* where each goroutine is in the function it runs
    importedContentMut,  \* cn.importedContentMut: the goroutine holding it
    pnode,               \* the node's importedContent, inContentUpdate, ...
    cenv,                \* revisions of the files, the reader's result
    \* ---- ImportConfigNode.Run of one node with its children
    rpc,              \* where each goroutine started by Run is
    rchan,            \* the channels: errChan, errChildrenChan, the children's errChan
    rctx,             \* the contexts that have been cancelled
    rinfo,            \* the node's source, healths, what Run returned
    \* ---- the relabel component and the goroutines that call it
    kpc,              \* where each goroutine is in relabel or in Update
    mut,              \* c.mut: the writer, a waiting writer, the readers
    cacheMut,         \* c.cacheMut: the writer, the readers
    rc,               \* c.mrc and c.cache, by the configuration they belong to
    loc,              \* what each relabel call has read and what it returned
    \* ---- the controller: what depends on the import node, and the loader
    ctl,              \* the declare the configuration uses, what its consumer saw
    graph,            \* the running graph: nodes, edges, running components
    load              \* the LoadSource call under way and the last one's outcome

rvars == <<mrc, cache, cacheCap, cacheHits, cacheMisses, cacheDeletes,
           cacheSize, metricsOutgoing, exited, last, hist>>
uvars == <<cs, registry, ulast, ucalls>>
ivars == <<files, nodes, ictl, ilast>>
cvars == <<gpc, importedContentMut, pnode, cenv>>
gvars == <<rpc, rchan, rctx, rinfo>>
kvars == <<kpc, mut, cacheMut, rc, loc>>
lvars == <<ctl>>
dvars == <<graph, load>>
vars == <<rvars, uvars, ivars, cvars, gvars, kvars, lvars, dvars>>

\* what each specification leaves alone
notRelabel == <<uvars, ivars, cvars, gvars, kvars, lvars, dvars>>
notUnreg == <<rvars, ivars, cvars, gvars, kvars, lvars, dvars>>
notImport == <<rvars, uvars, cvars, gvars, kvars, lvars, dvars>>
notRace == <<rvars, uvars, ivars, gvars, kvars, lvars, dvars>>
notRun == <<rvars, uvars, ivars, cvars, kvars, lvars, dvars>>
notConc == <<rvars, uvars, ivars, cvars, gvars, lvars, dvars>>
notConsumer == <<rvars, uvars, ivars, cvars, gvars, kvars, dvars>>
notLoader == <<rvars, uvars, ivars, cvars, gvars, kvars, lvars>>

\* The import nodes are not part of the relabel and registry specifications.
ImportIdle ==
    /\ files = << >>
    /\ nodes = << >>
    /\ ictl = << >>
    /\ ilast = << >>

\* The goroutines are not part of the other specifications.
RaceIdle ==
    /\ gpc = << >>
    /\ importedContentMut = ""
    /\ pnode = << >>
    /\ cenv = << >>

\* Run is not part of the other specifications.
RunIdle ==
    /\ rpc = << >>
    /\ rchan = << >>
    /\ rctx = << >>
    /\ rinfo = << >>

\* The goroutines that call the relabel component are not part of the
\* other specifications.
ConcIdle ==
    /\ kpc = << >>
    /\ mut = << >>
    /\ cacheMut = << >>
    /\ rc = << >>
    /\ loc = << >>

\* No configuration depends on the import node.
ConsumerIdle == ctl = << >>

\* The loader is not part of the other specifications.
LoaderIdle ==
    /\ graph = << >>
    /\ load = << >>

(***************************************************************************)
(* Bounds of the model.                                                    *)
(***************************************************************************)
\* calls (hooks and Updates) made on one relabel component
MaxCalls == 3
\* live sample values are 1..MaxValue
MaxValue == 1
\* max_cache_size arguments are 1..MaxCacheSize
MaxCacheSize == 2
\* calls made on the registry wrappers
MaxUCalls == 4

(***************************************************************************)
(* prometheus.relabel: data                                                *)
(***************************************************************************)
\* value.StaleNaN, the stale marker's bit pattern, as a value apart from
\* every live value
StaleNaN == -1

\* value.IsStaleNaN
IsStaleNaN(v) == v = StaleNaN

Values == (1..MaxValue) \cup {StaleNaN}

\* A label set is a set of <<name, value>> pairs.  These are the label sets
\* of the series that arrive; a series' GlobalID is the labelstore's
\* fingerprint of its label set, here its index.
SeriesLbls ==
    << {<<"env", "dev">>, <<"job", "a">>},
       {<<"env", "prod">>, <<"job", "a">>},
       {<<"env", "dev">>} >>

GlobalIDs == 1..Len(SeriesLbls)

\* *labelstore.Series.  nil is the nil pointer.
Series(id, lbls, ts, v) ==
    [nil |-> FALSE, GlobalID |-> id, Lbls |-> lbls, Ts |-> ts, Value |-> v]

NilSeries == [nil |-> TRUE, GlobalID |-> 0, Lbls |-> {}, Ts |-> 0, Value |-> 0]

\* The series a caller hands to a hook: the code copies Ts and never reads
\* it, and reads Value through IsStaleNaN alone.  The k-th call on the
\* component carries timestamp k.
InputSeries ==
    {Series(id, SeriesLbls[id], hist.calls + 1, v) : id \in GlobalIDs, v \in Values}

\* The fingerprint the labelstore gives to a relabelled label set: it is
\* a function of the labels alone (0 stands for a label set that is not one
\* of the incoming ones).
FingerprintOf(lbls) ==
    IF \E i \in GlobalIDs : SeriesLbls[i] = lbls
    THEN CHOOSE i \in GlobalIDs : SeriesLbls[i] = lbls
    ELSE 0

\* ls.ConvertToSeries(ts, value, lbls)
ConvertToSeries(ts, v, lbls) == Series(FingerprintOf(lbls), lbls, ts, v)

\* Relabel rules: each has one source label and an anchored regex that is a
\* literal.
\*   drop      drop the series when label `name` has value `value`
\*   keep      drop the series unless label `name` has value `value`
\*   labeldrop remove the label named `name`
\*   replace   set label `name` to `value`
Rule(action, name, value) == [action |-> action, name |-> name, value |-> value]

\* The rule sets a configuration may hold: no rule; one that drops some
\* series and rewrites the others; one that keeps some series and strips
\* every label of them (kept, with no labels left).
RuleSets ==
    { << >>,
      << Rule("drop", "env", "dev"), Rule("replace", "job", "x") >>,
      << Rule("keep", "job", "a"), Rule("labeldrop", "env", ""), Rule("labeldrop", "job", "") >> }

LabelValue(lbls, name) ==
    IF \E p \in lbls : p[1] = name
    THEN (CHOOSE p \in lbls : p[1] = name)[2]
    ELSE ""

\* relabel.Process of the Prometheus library: the rules are applied in order;
\* a rule that drops the series ends the run with (no labels, keep = false).
RECURSIVE Process(_, _)
Process(lbls, rules) ==
    IF rules = << >> THEN [lbls |-> lbls, keep |-> TRUE]
    ELSE LET r == Head(rules) IN
         CASE r.action = "drop" ->
                IF LabelValue(lbls, r.name) = r.value
                THEN [lbls |-> {}, keep |-> FALSE]
                ELSE Process(lbls, Tail(rules))
           [] r.action = "keep" ->
                IF LabelValue(lbls, r.name) # r.value
                THEN [lbls |-> {}, keep |-> FALSE]
                ELSE Process(lbls, Tail(rules))
           [] r.action = "labeldrop" ->
                Process({p \in lbls : p[1] # r.name}, Tail(rules))
           [] OTHER ->
                Process({p \in lbls : p[1] # r.name} \cup {<<r.name, r.value>>}, Tail(rules))

(***************************************************************************)
(* The LRU cache (hashicorp/golang-lru), as relabel.go uses it.  A cache   *)
(* is a sequence of entries, most recently used first.                     *)
(***************************************************************************)
Entry(k, v) == [key |-> k, val |-> v]

Keys(c) == {c[i].key : i \in 1..Len(c)}

IndexOf(c, k) == CHOOSE i \in 1..Len(c) : c[i].key = k

Without(c, k) == SelectSeq(c, LAMBDA e : e.key # k)

\* A getFromCache whose lookup leaves the order of the entries alone.
getFromCachePeeks(c, id) ==
    IF id \in Keys(c)
    THEN [found |-> TRUE, fm |-> c[IndexOf(c, id)].val, cache |-> c]
    ELSE [found |-> FALSE, fm |-> NilSeries, cache |-> c]

\* c.cache.Get inside getFromCache: a hit moves the entry to the front
getFromCache(c, id) ==
    IF id \in Keys(c)
    THEN [found |-> TRUE, fm |-> c[IndexOf(c, id)].val,
          cache |-> <<c[IndexOf(c, id)]>> \o Without(c, id)]
    ELSE [found |-> FALSE, fm |-> NilSeries, cache |-> c]

\* A deleteFromCache that leaves the entry in place.
deleteFromCacheKeeps(c, id) == c

\* c.cache.Remove inside deleteFromCache
deleteFromCache(c, id) == Without(c, id)

\* A clearCache that carries the old entries over into the new cache.
clearCacheMerges(c, size) ==
    [cache |-> IF Len(c) > size THEN SubSeq(c, 1, size) ELSE c, cap |-> size]

\* clearCache: a new, empty cache of the given capacity replaces the old one
clearCache(c, size) == [cache |-> << >>, cap |-> size]

\* c.cache.Add: the entry goes to the front; a new key beyond the capacity
\* evicts the entry at the back
LruAdd(c, cap, k, v) ==
    LET added == <<Entry(k, v)>> \o Without(c, k)
    IN  IF Len(added) > cap THEN SubSeq(added, 1, cap) ELSE added

\* An addToCache that does not cache a dropped series.
addToCacheSkipsDrops(c, cap, originalID, series, keep) ==
    IF ~keep THEN c ELSE LruAdd(c, cap, originalID, series)

\* addToCache: a dropped series is cached as nil
addToCache(c, cap, originalID, series, keep) ==
    IF ~keep THEN LruAdd(c, cap, originalID, NilSeries)
    ELSE LruAdd(c, cap, originalID, series)

(***************************************************************************)
(* Component.relabel.  The result holds the series returned and the        *)
(* component's fields after the call.                                      *)
(***************************************************************************)
relabel(series) ==
    LET got == getFromCache(cache, series.GlobalID) IN
    IF got.found
    THEN [newSeries |-> got.fm,
          hit       |-> TRUE,
          cache     |-> IF IsStaleNaN(series.Value)
                        THEN deleteFromCache(got.cache, series.GlobalID)
                        ELSE got.cache,
          hits      |-> cacheHits + 1,
          misses    |-> cacheMisses,
          deletes   |-> IF IsStaleNaN(series.Value) THEN cacheDeletes + 1 ELSE cacheDeletes,
          size      |-> cacheSize]
    ELSE LET p         == Process(series.Lbls, mrc)
             newSeries == ConvertToSeries(series.Ts, series.Value, p.lbls)
             added     == addToCache(got.cache, cacheCap, series.GlobalID, newSeries, p.keep)
             after     == IF IsStaleNaN(series.Value)
                          THEN deleteFromCache(added, series.GlobalID)
                          ELSE added
         IN [newSeries |-> newSeries,
             hit       |-> FALSE,
             cache     |-> after,
             hits      |-> cacheHits,
             misses    |-> cacheMisses + 1,
             deletes   |-> IF IsStaleNaN(series.Value) THEN cacheDeletes + 1 ELSE cacheDeletes,
             size      |-> Len(after)]

(***************************************************************************)
(* The interceptor hooks built in New.                                     *)
(***************************************************************************)
HookKinds == {"append", "exemplar", "metadata", "histogram"}

NoCall == [op |-> "new", kind |-> "", series |-> NilSeries, hit |-> FALSE,
           out |-> NilSeries, ret |-> "", fwd |-> NilSeries, size |-> 0]

\* What a hook returns once relabel has returned newSeries:
\*   "panic"    newseries.Lbls on a nil *Series
\*   "zero"     (0, nil): the series was dropped
\*   "next"     whatever the next appender returned for newSeries
HookReturn(newSeries) ==
    IF newSeries.nil THEN "panic"
    ELSE IF newSeries.Lbls = {} THEN "zero"
    ELSE "next"

\* the fingerprints in the order of their last use by relabel (a lookup
\* that hit, or an add), the latest first
MovedToFront(used, id) == <<id>> \o SelectSeq(used, LAMBDA x : x # id)

\* A hook without the check of c.exited.
HookCallIgnoresExited(kind, series) ==
    /\ LET r   == relabel(series)
           ret == HookReturn(r.newSeries)
       IN  /\ cache' = r.cache
           /\ cacheHits' = r.hits
           /\ cacheMisses' = r.misses
           /\ cacheDeletes' = r.deletes
           /\ cacheSize' = r.size
           /\ metricsOutgoing' = IF kind = "append" /\ ret = "next"
                                 THEN metricsOutgoing + 1 ELSE metricsOutgoing
           /\ last' = [op |-> "hook", kind |-> kind, series |-> series, hit |-> r.hit,
                       out |-> r.newSeries, ret |-> ret,
                       fwd |-> IF ret = "next" THEN r.newSeries ELSE NilSeries,
                       size |-> 0]
           /\ hist' = [hist EXCEPT !.calls = @ + 1,
                                   !.ids = @ \cup {series.GlobalID},
                                   !.stale = @ \/ IsStaleNaN(series.Value),
                                   !.used = MovedToFront(@, series.GlobalID)]
    /\ UNCHANGED <<mrc, cacheCap, exited>>
    /\ UNCHANGED notRelabel

\* One call of the append, exemplar, metadata or histogram hook.  The hook
\* panics after relabel has returned and released its lock, so the
\* component's state is that at relabel's return.  Nothing in the component
\* recovers: if no caller does either, the process ends there, which is the
\* behaviour that takes no further step.
HookCall(kind, series) ==
    /\ IF exited
       THEN /\ last' = [op |-> "hook", kind |-> kind, series |-> series, hit |-> FALSE,
                        out |-> NilSeries, ret |-> "exited", fwd |-> NilSeries, size |-> 0]
            /\ hist' = [hist EXCEPT !.calls = @ + 1]
            /\ UNCHANGED <<cache, cacheHits, cacheMisses, cacheDeletes, cacheSize,
                           metricsOutgoing>>
       ELSE LET r   == relabel(series)
                ret == HookReturn(r.newSeries)
            IN  /\ cache' = r.cache
                /\ cacheHits' = r.hits
                /\ cacheMisses' = r.misses
                /\ cacheDeletes' = r.deletes
                /\ cacheSize' = r.size
                /\ metricsOutgoing' = IF kind = "append" /\ ret = "next"
                                      THEN metricsOutgoing + 1 ELSE metricsOutgoing
                /\ last' = [op |-> "hook", kind |-> kind, series |-> series, hit |-> r.hit,
                            out |-> r.newSeries, ret |-> ret,
                            fwd |-> IF ret = "next" THEN r.newSeries ELSE NilSeries,
                            size |-> 0]
                /\ hist' = [hist EXCEPT !.calls = @ + 1,
                                        !.ids = @ \cup {series.GlobalID},
                                        !.stale = @ \/ IsStaleNaN(series.Value),
                                        !.used = MovedToFront(@, series.GlobalID)]
    /\ UNCHANGED <<mrc, cacheCap, exited>>
    /\ UNCHANGED notRelabel

Hook(kind, series) ==
    /\ hist.calls < MaxCalls
    /\ HookCall(kind, series)

\* Component.Update with arguments that passed Arguments.Validate
\* (CacheSize > 0): clearCache, then the new rules.
UpdateCall(rules, size) ==
    /\ cache' = clearCache(cache, size).cache
    /\ cacheCap' = clearCache(cache, size).cap
    /\ mrc' = rules
    /\ last' = [NoCall EXCEPT !.op = "update", !.size = size]
    /\ hist' = [hist EXCEPT !.calls = @ + 1, !.updated = TRUE]
    /\ UNCHANGED <<cacheHits, cacheMisses, cacheDeletes, cacheSize, metricsOutgoing, exited>>
    /\ UNCHANGED notRelabel

Update(rules, size) ==
    /\ hist.calls < MaxCalls
    /\ UpdateCall(rules, size)

\* Component.Run returning: the deferred c.exited.Store(true)
RunReturns ==
    /\ ~exited
    /\ exited' = TRUE
    /\ last' = [NoCall EXCEPT !.op = "run"]
    /\ UNCHANGED <<mrc, cache, cacheCap, cacheHits, cacheMisses, cacheDeletes, cacheSize,
                   metricsOutgoing, hist>>
    /\ UNCHANGED notRelabel

\* The registry wrappers are not part of this specification.
UnregIdle ==
    /\ cs = << >>
    /\ registry = << >>
    /\ ulast = << >>
    /\ ucalls = 0

\* New: a cache of args.CacheSize, every counter at 0, and the first Update
RelabelInit ==
    /\ mrc \in RuleSets
    /\ cacheCap \in 1..MaxCacheSize
    /\ cache = << >>
    /\ cacheHits = 0
    /\ cacheMisses = 0
    /\ cacheDeletes = 0
    /\ cacheSize = 0
    /\ metricsOutgoing = 0
    /\ exited = FALSE
    /\ last = NoCall
    /\ hist = [calls |-> 0, updated |-> FALSE, ids |-> {}, stale |-> FALSE, used |-> << >>]
    /\ UnregIdle
    /\ ImportIdle
    /\ RaceIdle
    /\ RunIdle
    /\ ConcIdle
    /\ ConsumerIdle
    /\ LoaderIdle

RelabelNext ==
    \/ \E kind \in HookKinds, series \in InputSeries : Hook(kind, series)
    \/ \E rules \in RuleSets, size \in 1..MaxCacheSize : Update(rules, size)
    \/ RunReturns

SpecRelabel == RelabelInit /\ [][RelabelNext]_vars

(***************************************************************************)
(* Properties of the relabel component, checked under SpecRelabel.         *)
(***************************************************************************)
\* The last call was a hook that got past the exited check and ran relabel.
RanRelabel == last.op = "hook" /\ last.ret # "exited"

\* What applying the rules in force directly to a sample produces: the
\* relabelled labels with the sample's own timestamp and value.
Direct(series) ==
    ConvertToSeries(series.Ts, series.Value, Process(series.Lbls, mrc).lbls)

\* C1: whatever the cache holds, the series relabel returns for a sample is
\* the series that applying the rules directly to that sample produces.
C1_CacheTransparent == RanRelabel => last.out = Direct(last.series)

\* The last call found a drop entry (nil) in the cache.
HitOnDropEntry == RanRelabel /\ last.hit /\ last.out.nil

\* C2: a sample that hits a drop entry is handled as dropped: the hook
\* returns (0, nil), forwards nothing and does not panic.
C2_DropHitHandled == HitOnDropEntry => last.ret = "zero" /\ last.fwd.nil

\* The last call ran relabel on a stale marker.
StaleReturned == RanRelabel /\ IsStaleNaN(last.series.Value)

\* C3: once relabel has returned for a stale marker, the cache holds no entry
\* for that sample's fingerprint, on a hit and on a miss alike; and a sample
\* of the same series that comes next is a miss, counted by the miss counter.
C3_StaleEvicts ==
    [][ /\ StaleReturned' => last'.series.GlobalID \notin Keys(cache')
        /\ ( /\ StaleReturned
             /\ RanRelabel'
             /\ last'.series.GlobalID = last.series.GlobalID )
           => ~last'.hit /\ cacheMisses' = cacheMisses + 1 ]_vars

\* A stale marker hit a cached, kept entry and the call has returned.
C3_Witness == StaleReturned /\ last.hit /\ ~last.out.nil

\* C4: when Update returns, the cache is empty and has the capacity of the
\* new arguments; the relabel call that comes first after it is a miss.
C4_UpdateClears ==
    [][ /\ last'.op = "update" => cache' = << >> /\ cacheCap' = last'.size
        /\ (last.op = "update" /\ RanRelabel')
           => ~last'.hit /\ cacheMisses' = cacheMisses + 1 ]_vars

\* Update has returned on a component whose cache held one entry: one miss
\* came before it and nothing was deleted.
C4_Witness ==
    /\ last.op = "update"
    /\ hist.calls = 2
    /\ cacheMisses = 1
    /\ cacheDeletes = 0

\* Since New, only live samples of one series have been sent, with no Update
\* and before Run returns: hist.calls of them.
SingleLiveSeries ==
    /\ ~hist.updated
    /\ ~hist.stale
    /\ ~exited
    /\ Cardinality(hist.ids) = 1

\* C5: n live samples of a single series under one rule set are one miss and
\* n - 1 hits, whether the rules keep the series or drop it.
C5_SingleSeriesCounters ==
    SingleLiveSeries => cacheMisses = 1 /\ cacheHits = hist.calls - 1

\* Three samples of a series that the rules keep have been sent.
C5_Witness ==
    /\ SingleLiveSeries
    /\ hist.calls = 3
    /\ last.hit
    /\ ~last.out.nil
    /\ cacheHits = 2

\* C32: when a relabel call has returned, on a hit or a miss, for a stale
\* marker or a live sample, the cache-size gauge is the number of entries
\* in the cache.
C32_GaugeIsCacheLen == RanRelabel => cacheSize = Len(cache)

\* the step is a call of a hook on a component whose Run has returned
HookAfterExit ==
    /\ exited
    /\ last'.op = "hook"
    /\ hist'.calls = hist.calls + 1

\* C34: once Run has returned the exited flag stays true, and every call of
\* the append, exemplar, metadata or histogram hook that comes later
\* returns the error: the cache and its order, the counters and the gauge
\* are as before (no lookup, no rule applied) and nothing is forwarded.
C34_ExitedRejects ==
    [][ /\ exited => exited'
        /\ HookAfterExit =>
              /\ last'.ret = "exited"
              /\ last'.fwd.nil
              /\ last'.out.nil
              /\ cache' = cache
              /\ cacheHits' = cacheHits
              /\ cacheMisses' = cacheMisses
              /\ cacheDeletes' = cacheDeletes
              /\ cacheSize' = cacheSize
              /\ metricsOutgoing' = metricsOutgoing ]_vars

\* After Run returned, a hook was called with a series that the cache
\* holds, relabelled and kept.
C34_Witness ==
    /\ exited
    /\ last.op = "hook"
    /\ last.ret = "exited"
    /\ last.series.GlobalID \in Keys(cache)
    /\ ~cache[IndexOf(cache, last.series.GlobalID)].val.nil

(***************************************************************************)
(* pkg/util/unregisterer.go: collectors and the registry that is wrapped.  *)
(***************************************************************************)
\* A descriptor: its id is its fully-qualified name (no const labels here),
\* its dimHash stands for its label names and help string.
Desc(name, dim) == [fqName |-> name, dimHash |-> dim]

\* The collectors that exist.  a1 and a2 are two collectors with one and the
\* same descriptor, and so are b1 and b2; ax has a1's name with another help
\* string; u describes nothing (an unchecked collector).
Collectors == {"a1", "a2", "ax", "b1", "b2", "u"}

\* c.Describe
Describe(c) ==
    CASE c \in {"a1", "a2"} -> {Desc("a", "d1")}
      [] c = "ax"           -> {Desc("a", "d2")}
      [] c \in {"b1", "b2"} -> {Desc("b", "d1")}
      [] OTHER              -> {}

\* isUncheckedCollector: the collector advertises no descriptor
isUncheckedCollector(c) == Cardinality(Describe(c)) = 0

\* The collector ID a registry computes: the XOR of the collector's
\* descriptor ids, here the set of them.
CollectorID(c) == {d.fqName : d \in Describe(c)}

EmptyRegistry ==
    [collectorsByID |-> << >>, descIDs |-> {}, dimHashesByName |-> << >>,
     uncheckedCollectors |-> << >>]

\* f without the key k
Drop(f, k) == [x \in DOMAIN f \ {k} |-> f[x]]

\* A registry whose Unregister forgets the collector and keeps its
\* descriptor ids.
RegistryUnregisterKeepsDescs(reg, c) ==
    IF CollectorID(c) \notin DOMAIN reg.collectorsByID
    THEN [ok |-> FALSE, reg |-> reg]
    ELSE [ok |-> TRUE,
          reg |-> [reg EXCEPT !.collectorsByID = Drop(@, CollectorID(c))]]

\* u.wrap.Register on a prometheus.Registry: "nil" or the error
RegistryRegister(reg, c) ==
    LET descs == Describe(c) IN
    IF \E d \in descs : /\ d.fqName \in DOMAIN reg.dimHashesByName
                        /\ reg.dimHashesByName[d.fqName] # d.dimHash
    THEN [err |-> "inconsistent", reg |-> reg]
    ELSE IF descs = {}
    THEN [err |-> "nil",
          reg |-> [reg EXCEPT !.uncheckedCollectors = Append(@, c)]]
    ELSE IF CollectorID(c) \in DOMAIN reg.collectorsByID
    THEN [err |-> "AlreadyRegistered", reg |-> reg]
    ELSE IF \E d \in descs : d.fqName \in reg.descIDs
    THEN [err |-> "duplicateDesc", reg |-> reg]
    ELSE [err |-> "nil",
          reg |-> [reg EXCEPT
                     !.collectorsByID = (CollectorID(c) :> c) @@ @,
                     !.descIDs = @ \cup CollectorID(c),
                     !.dimHashesByName =
                        [n \in DOMAIN @ \cup CollectorID(c) |->
                           IF n \in DOMAIN @ THEN @[n]
                           ELSE (CHOOSE d \in descs : d.fqName = n).dimHash]]]

\* u.wrap.Unregister on a prometheus.Registry: a collector is found by its
\* ID; dimHashesByName is left as it is
RegistryUnregister(reg, c) ==
    IF CollectorID(c) \notin DOMAIN reg.collectorsByID
    THEN [ok |-> FALSE, reg |-> reg]
    ELSE [ok |-> TRUE,
          reg |-> [reg EXCEPT !.collectorsByID = Drop(@, CollectorID(c)),
                              !.descIDs = @ \ CollectorID(c)]]

(***************************************************************************)
(* The Unregisterer.  Wrapper w0 was made by WrapWithUnregisterer(nil);    *)
(* w1 and w2 wrap one and the same registry.  An operation takes the state *)
(* st = [cs, reg] and returns the state after it with what it returned.    *)
(***************************************************************************)
Wrappers == {"w0", "w1", "w2"}

\* u.wrap != nil
HasWrap(w) == w # "w0"

\* A Register that remembers the collector before it knows the registrar
\* took it.
RegisterRemembersFirst(st, w, c) ==
    IF ~HasWrap(w)
    THEN [st |-> st, err |-> "nil", delegated |-> FALSE, under |-> "nil"]
    ELSE LET r == RegistryRegister(st.reg, c) IN
         [st |-> [cs |-> [st.cs EXCEPT ![w] = @ \cup {c}], reg |-> r.reg],
          err |-> r.err, delegated |-> TRUE, under |-> r.err]

\* Unregisterer.Register
Register(st, w, c) ==
    IF ~HasWrap(w)
    THEN [st |-> st, err |-> "nil", delegated |-> FALSE, under |-> "nil"]
    ELSE LET r == RegistryRegister(st.reg, c) IN
         IF r.err # "nil"
         THEN [st |-> st, err |-> r.err, delegated |-> TRUE, under |-> r.err]
         ELSE IF isUncheckedCollector(c)
         THEN [st |-> [cs |-> st.cs, reg |-> r.reg],
               err |-> "nil", delegated |-> TRUE, under |-> "nil"]
         ELSE [st |-> [cs |-> [st.cs EXCEPT ![w] = @ \cup {c}], reg |-> r.reg],
               err |-> "nil", delegated |-> TRUE, under |-> "nil"]

\* Register for each collector of a list in turn, up to the first error:
\* MustRegister's loop (which panics with that error) and New's loop in
\* relabel.go (which returns it)
RECURSIVE RegisterEach(_, _, _)
RegisterEach(st, w, list) ==
    IF list = << >> THEN [st |-> st, err |-> "nil"]
    ELSE LET r == Register(st, w, Head(list)) IN
         IF r.err # "nil" THEN [st |-> r.st, err |-> r.err]
         ELSE RegisterEach(r.st, w, Tail(list))

\* Unregisterer.MustRegister
MustRegister(st, w, list) ==
    LET r == RegisterEach(st, w, list) IN
    [st |-> r.st, panic |-> r.err # "nil", err |-> r.err]

\* An Unregister that forgets the collector whatever the registrar says.
UnregisterForgetsAlways(st, w, c) ==
    IF ~HasWrap(w)
    THEN [st |-> [st EXCEPT !.cs[w] = @ \ {c}],
          ret |-> FALSE, delegated |-> FALSE, under |-> FALSE]
    ELSE LET r == RegistryUnregister(st.reg, c) IN
         [st |-> [cs |-> [st.cs EXCEPT ![w] = @ \ {c}], reg |-> r.reg],
          ret |-> r.ok, delegated |-> TRUE, under |-> r.ok]

\* Unregisterer.Unregister
Unregister(st, w, c) ==
    IF ~HasWrap(w)
    THEN [st |-> st, ret |-> FALSE, delegated |-> FALSE, under |-> FALSE]
    ELSE LET r == RegistryUnregister(st.reg, c) IN
         IF r.ok
         THEN [st |-> [cs |-> [st.cs EXCEPT ![w] = @ \ {c}], reg |-> r.reg],
               ret |-> TRUE, delegated |-> TRUE, under |-> TRUE]
         ELSE [st |-> st, ret |-> FALSE, delegated |-> TRUE, under |-> FALSE]

\* The orders in which a range over the map u.cs may visit its keys
Orders(S) ==
    {o \in [1..Cardinality(S) -> S] : {o[i] : i \in 1..Cardinality(S)} = S}

\* An UnregisterAll that returns after the collector it visits first.
RECURSIVE UnregisterAllFirstOnly(_, _, _)
UnregisterAllFirstOnly(st, w, order) ==
    IF order = << >> THEN [st |-> st, failed |-> {}, errors |-> 0]
    ELSE LET r == Unregister(st, w, Head(order))
         IN  [st |-> r.st, failed |-> IF r.ret THEN {} ELSE {Head(order)},
              errors |-> IF r.ret THEN 0 ELSE 1]

\* Unregisterer.UnregisterAll, visiting u.cs in the given order: the
\* collectors that could not be unregistered make up the multi-error, and
\* errors is the number of errors appended to it
RECURSIVE UnregisterAll(_, _, _)
UnregisterAll(st, w, order) ==
    IF order = << >> THEN [st |-> st, failed |-> {}, errors |-> 0]
    ELSE LET r    == Unregister(st, w, Head(order))
             rest == UnregisterAll(r.st, w, Tail(order))
         IN  [st |-> rest.st,
              failed |-> IF r.ret THEN rest.failed ELSE {Head(order)} \cup rest.failed,
              errors |-> IF r.ret THEN rest.errors ELSE 1 + rest.errors]

(***************************************************************************)
(* Calls on the wrappers.                                                  *)
(***************************************************************************)
UState == [cs |-> cs, reg |-> registry]

NoUCall == [op |-> "", w |-> "", c |-> "", ret |-> "",
            delegated |-> FALSE, under |-> "", before |-> {}, failed |-> {},
            errors |-> 0, afterTeardown |-> FALSE]

BoolStr(b) == IF b THEN "true" ELSE "false"

CallRegister(w, c) ==
    /\ ucalls < MaxUCalls
    /\ \E r \in {Register(UState, w, c)} :
         /\ cs' = r.st.cs
         /\ registry' = r.st.reg
         /\ ulast' = [NoUCall EXCEPT !.op = "Register", !.w = w, !.c = c,
                                     !.ret = r.err, !.delegated = r.delegated,
                                     !.under = r.under, !.before = cs[w]]
    /\ ucalls' = ucalls + 1
    /\ UNCHANGED notUnreg

CallMustRegister(w, list) ==
    /\ ucalls < MaxUCalls
    /\ \E r \in {MustRegister(UState, w, list)} :
         /\ cs' = r.st.cs
         /\ registry' = r.st.reg
         /\ ulast' = [NoUCall EXCEPT !.op = "MustRegister", !.w = w,
                                     !.ret = IF r.panic THEN "panic" ELSE "nil",
                                     !.under = r.err, !.before = cs[w]]
    /\ ucalls' = ucalls + 1
    /\ UNCHANGED notUnreg

CallUnregister(w, c) ==
    /\ ucalls < MaxUCalls
    /\ \E r \in {Unregister(UState, w, c)} :
         /\ cs' = r.st.cs
         /\ registry' = r.st.reg
         /\ ulast' = [NoUCall EXCEPT !.op = "Unregister", !.w = w, !.c = c,
                                     !.ret = BoolStr(r.ret), !.delegated = r.delegated,
                                     !.under = BoolStr(r.under), !.before = cs[w]]
    /\ ucalls' = ucalls + 1
    /\ UNCHANGED notUnreg

CallUnregisterAll(w) ==
    /\ ucalls < MaxUCalls
    /\ \E order \in Orders(cs[w]) :
         \E r \in {UnregisterAll(UState, w, order)} :
           /\ cs' = r.st.cs
           /\ registry' = r.st.reg
           /\ ulast' = [NoUCall EXCEPT !.op = "UnregisterAll", !.w = w,
                                       !.ret = IF r.failed = {} THEN "nil" ELSE "multierror",
                                       !.before = cs[w], !.failed = r.failed,
                                       !.errors = r.errors]
    /\ ucalls' = ucalls + 1
    /\ UNCHANGED notUnreg

\* The collectors no wrapper remembers and the registry does not hold
Unreferenced ==
    {c \in Collectors :
        /\ \A w \in Wrappers : c \notin cs[w]
        /\ \A id \in DOMAIN registry.collectorsByID : registry.collectorsByID[id] # c
        /\ \A i \in 1..Len(registry.uncheckedCollectors) : registry.uncheckedCollectors[i] # c}

\* The metrics a component makes and registers when it is built: new
\* collectors, one per metric name, always with the same descriptors
ComponentMetrics == <<Desc("a", "d1"), Desc("b", "d1")>>

NewCollectors ==
    {list \in [1..Len(ComponentMetrics) -> Unreferenced] :
        \A i \in 1..Len(ComponentMetrics) : Describe(list[i]) = {ComponentMetrics[i]}}

NamesOf(S) == UNION {CollectorID(c) : c \in S}

\* New of a component whose o.Registerer is wrapper w: its collectors are
\* registered one by one and the first error is returned
CallNew(w) ==
    /\ ucalls < MaxUCalls
    /\ \E list \in NewCollectors :
         \E r \in {RegisterEach(UState, w, list)} :
           /\ cs' = r.st.cs
           /\ registry' = r.st.reg
           /\ ulast' = [NoUCall EXCEPT
                          !.op = "New", !.w = w, !.ret = r.err,
                          !.before = cs[w],
                          !.afterTeardown =
                              /\ ulast.op = "UnregisterAll"
                              /\ ulast.ret = "nil"
                              /\ NamesOf(ulast.before) = NamesOf({list[i] : i \in 1..Len(list)})]
    /\ ucalls' = ucalls + 1
    /\ UNCHANGED notUnreg

\* The relabel component is not part of this specification.
RelabelIdle ==
    /\ mrc = << >>
    /\ cache = << >>
    /\ cacheCap = 1
    /\ cacheHits = 0
    /\ cacheMisses = 0
    /\ cacheDeletes = 0
    /\ cacheSize = 0
    /\ metricsOutgoing = 0
    /\ exited = FALSE
    /\ last = NoCall
    /\ hist = [calls |-> 0, updated |-> FALSE, ids |-> {}, stale |-> FALSE]

UnregInit ==
    /\ cs = [w \in Wrappers |-> {}]
    /\ registry = EmptyRegistry
    /\ ulast = NoUCall
    /\ ucalls = 0
    /\ RelabelIdle
    /\ ImportIdle
    /\ RaceIdle
    /\ RunIdle
    /\ ConcIdle
    /\ ConsumerIdle
    /\ LoaderIdle

\* The collector lists MustRegister is called with: both collectors are
\* taken, the second is refused once the first is taken, and the same with
\* an unchecked collector first.
ArgLists == {<<c, d>> : c \in {"a1", "u"}, d \in {"a2", "b1"}}

UnregNext ==
    \/ \E w \in Wrappers, c \in Collectors : CallRegister(w, c)
    \/ \E w \in Wrappers, list \in ArgLists : CallMustRegister(w, list)
    \/ \E w \in Wrappers, c \in Collectors : CallUnregister(w, c)
    \/ \E w \in Wrappers : CallUnregisterAll(w)
    \/ \E w \in Wrappers : CallNew(w)

SpecUnreg == UnregInit /\ [][UnregNext]_vars

(***************************************************************************)
(* Properties of the Unregisterer, checked under SpecUnreg.                *)
(***************************************************************************)
\* C6: Register calls the underlying registrar when there is one and returns
\* what it returned; on an error the remembered set is as before; on success
\* the registrar holds the collector, and it is remembered exactly when it
\* advertises a descriptor.
C6_RegisterDelegates ==
    ulast.op = "Register" =>
        /\ ulast.delegated = HasWrap(ulast.w)
        /\ ulast.delegated =>
             /\ ulast.ret = ulast.under
             /\ ulast.under # "nil" => cs[ulast.w] = ulast.before
             /\ ulast.under = "nil" =>
                  IF isUncheckedCollector(ulast.c)
                  THEN cs[ulast.w] = ulast.before
                  ELSE /\ cs[ulast.w] = ulast.before \cup {ulast.c}
                       /\ registry.collectorsByID[CollectorID(ulast.c)] = ulast.c

\* The registrar refused a collector on a wrapper that remembers others.
C6_Witness ==
    /\ ulast.op = "Register"
    /\ ulast.ret = "AlreadyRegistered"
    /\ ulast.before # {}

C8_UnregisterAllEmpties ==
    (ulast.op = "UnregisterAll" /\ ulast.ret = "nil") =>
        /\ cs[ulast.w] = {}
        /\ \A c \in ulast.before :
             CollectorID(c) \notin DOMAIN registry.collectorsByID

\* UnregisterAll returned nil on a wrapper that remembered two collectors.
C8_Witness ==
    /\ ulast.op = "UnregisterAll"
    /\ ulast.ret = "nil"
    /\ Cardinality(ulast.before) = 2

\* C9: a collector is registered through a wrapper around a fresh registry
\* and unregistered, which returns true; unregistering it once more returns
\* true again.
C9_UnregisterTwice ==
    [][ ( /\ ucalls = 2
          /\ ulast.op = "Unregister"
          /\ ulast.ret = "true"
          /\ ulast.before = {ulast.c}
          /\ ulast'.op = "Unregister"
          /\ ulast'.w = ulast.w
          /\ ulast'.c = ulast.c )
        => ulast'.ret = "true" ]_vars

\* C10: once UnregisterAll has returned nil, a collector with the descriptors
\* of any collector that was remembered registers again without error through
\* every wrapper of the registry, and no collector with its name is refused
\* as already registered; this holds after every such teardown.
C10_ReRegisterSucceeds ==
    (ulast.op = "UnregisterAll" /\ ulast.ret = "nil") =>
        \A w \in Wrappers, c \in ulast.before, d \in Collectors :
            /\ (HasWrap(w) /\ Describe(d) = Describe(c))
                 => Register(UState, w, d).err = "nil"
            /\ CollectorID(d) = CollectorID(c)
                 => Register(UState, w, d).err \notin {"AlreadyRegistered", "duplicateDesc"}

\* A component has been built, torn down with UnregisterAll and built again
\* with new collectors for the same metrics.
C10_Witness ==
    /\ ulast.op = "New"
    /\ ulast.ret = "nil"
    /\ ulast.afterTeardown

\* C28: when UnregisterAll cannot unregister some of the remembered
\* collectors it returns one error that holds exactly one failure for each
\* of them; every remembered collector has either been unregistered and
\* forgotten or has failed and is still remembered, and the registry holds
\* none of them any more.
C28_UnregisterAllPartial ==
    (ulast.op = "UnregisterAll" /\ ulast.ret = "multierror") =>
        /\ ulast.failed # {}
        /\ ulast.failed \subseteq ulast.before
        /\ ulast.errors = Cardinality(ulast.failed)
        /\ cs[ulast.w] = ulast.failed
        /\ \A c \in ulast.before :
               \A id \in DOMAIN registry.collectorsByID : registry.collectorsByID[id] # c

\* UnregisterAll unregistered one of two remembered collectors and failed on
\* the other.
C28_Witness ==
    /\ ulast.op = "UnregisterAll"
    /\ ulast.ret = "multierror"
    /\ Cardinality(ulast.before) = 2
    /\ Cardinality(ulast.failed) = 1

\* C29: after the first and after the second call ever made, both through
\* wrapper w1, the collectors w1 remembers are exactly the checked
\* collectors registered in the registry.
C29_RememberedIsRegistered ==
    [][ ( /\ ucalls <= 1
          /\ ucalls = 1 => ulast.w = "w1"
          /\ ulast'.w = "w1" )
        => cs'["w1"] = {registry'.collectorsByID[id] :
                           id \in DOMAIN registry'.collectorsByID} ]_vars

(***************************************************************************)
(* Import node: module text and its parse                                  *)
(*                                                                         *)
(* A module text is a sequence of lexical units.  The units before a       *)
(* block's opening brace (its name and its label) are one unit each; every *)
(* character of a block body is a unit of its own, so offsets inside a     *)
(* body count characters.                                                  *)
(*   "D"  the block name declare          "I"  the block name import.file  *)
(*   "F"  any other block name            "="  an attribute statement      *)
(*   "a" "m" "n"  block labels            "x" " "  body characters         *)
(***************************************************************************)
BlockDeclare == "D"
\* importsource.BlockImportFile
BlockImportFile == "I"
BlockNames == {BlockDeclare, BlockImportFile, "F"}
Labels == {"a", "m", "n"}

\* the text of  declare "label" { body }  written without any padding
DeclareText(label, body) == <<BlockDeclare, label, "{">> \o body \o <<"}">>
\* the text of  import.file "label" { filename = ... }
ImportText(label) == <<BlockImportFile, label, "{", "=", "}">>
\* the text of a block that is neither a declare nor an import
ForbiddenText == <<"F", "a", "{", "}">>
\* the text of a top-level attribute
AttributeText == <<"=">>

\* Index of the brace that closes the block whose body starts at index p,
\* 0 when the block is never closed.
RECURSIVE MatchBrace(_, _, _)
MatchBrace(text, p, depth) ==
    IF p > Len(text) THEN 0
    ELSE IF text[p] = "{" THEN MatchBrace(text, p + 1, depth + 1)
    ELSE IF text[p] = "}"
         THEN IF depth = 1 THEN p ELSE MatchBrace(text, p + 1, depth - 1)
    ELSE MatchBrace(text, p + 1, depth)

\* parser.ParseFile from index p on: the statements of the file body, each
\* block with the byte offsets of its braces (LCurlyPos.Position().Offset,
\* RCurlyPos.Position().Offset: offsets start at 0, indices at 1), or an
\* error.
RECURSIVE ParseFrom(_, _)
ParseFrom(text, p) ==
    IF p > Len(text) THEN [err |-> FALSE, Body |-> << >>]
    ELSE IF text[p] = " " THEN ParseFrom(text, p + 1)
    ELSE IF text[p] = "="
         THEN LET rest == ParseFrom(text, p + 1)
              IN  [err |-> rest.err,
                   Body |-> <<[stmt |-> "AttributeStmt"]>> \o rest.Body]
    ELSE IF /\ text[p] \in BlockNames
            /\ p + 2 <= Len(text)
            /\ text[p + 1] \in Labels
            /\ text[p + 2] = "{"
            /\ MatchBrace(text, p + 3, 1) # 0
         THEN LET r    == MatchBrace(text, p + 3, 1)
                  rest == ParseFrom(text, r + 1)
              IN  [err |-> rest.err,
                   Body |-> <<[stmt |-> "BlockStmt", Name |-> text[p],
                               Label |-> text[p + 1],
                               LCurlyPos |-> p + 1, RCurlyPos |-> r - 1]>> \o rest.Body]
    ELSE [err |-> TRUE, Body |-> << >>]

ParseFile(text) ==
    LET r == ParseFrom(text, 1)
    IN  IF r.err THEN [err |-> TRUE, Body |-> << >>] ELSE r

\* Go's content[lo:hi]: the characters at offsets lo .. hi-1, and a run-time
\* panic (slice bounds out of range) when lo > hi or hi is past the end.
GoSlice(content, lo, hi) ==
    IF lo > hi \/ hi > Len(content) \/ lo < 0
    THEN [panic |-> TRUE, s |-> << >>]
    ELSE [panic |-> FALSE, s |-> SubSeq(content, lo + 1, hi)]

(***************************************************************************)
(* Import node: the nodes                                                  *)
(*                                                                         *)
(* nodes[id] is the ImportConfigNode at address id; node 1 is the node the *)
(* controller built for the configuration's import block, every other node *)
(* was built by processImportBlock of its parent.  A node that its parent  *)
(* has dropped from importConfigNodesChildren stays in nodes: its Run, if  *)
(* it was started, goes on.                                                *)
(***************************************************************************)
\* files written after the start
MaxWrites == 2

Root == 1
EmptyMap == << >>
Put(m, k, v) == [x \in DOMAIN m \cup {k} |-> IF x = k THEN v ELSE m[x]]

\* the file an import block with this label reads
FileNames == {"r", "m", "n"}
\* a file that does not exist
NoFile == <<"?">>

\* NewImportConfigNode: importedContent is an empty map, the child map is
\* nil (read like an empty map), the parent's OnChildrenContentUpdate is
\* the node's OnComponentUpdate; a zero lastUpdateTime.
NewImportConfigNode(label, parent) ==
    [label |-> label, parent |-> parent,
     importedContent |-> EmptyMap,
     importConfigNodesChildren |-> EmptyMap,
     inContentUpdate |-> FALSE,
     lastUpdateTime |-> 0,
     seen |-> NoFile,
     running |-> FALSE]

\* child.label + "." + importedDeclareLabel
ScopedName(label, importedDeclareLabel) == label \o "." \o importedDeclareLabel

RECURSIVE OnComponentUpdate(_, _)
RECURSIVE OnChildrenContentUpdate(_, _, _)
RECURSIVE onContentUpdate(_, _, _)
RECURSIVE processNodeBody(_, _, _, _)
RECURSIVE evaluateChildren(_, _, _)

\* cn.OnComponentUpdate(cn): the controller's sink for node 1, the parent's
\* OnChildrenContentUpdate for every other node (processImportBlock).
OnComponentUpdate(st, id) ==
    IF st.nodes[id].parent = 0
    THEN [st EXCEPT !.notified = @ + 1]
    ELSE OnChildrenContentUpdate(st, st.nodes[id].parent, id)

\* An OnChildrenContentUpdate that takes the child's names without the
\* namespace.
OnChildrenContentUpdateUnscoped(st, id, child) ==
    LET c    == st.nodes[child]
        cn   == st.nodes[id]
        st1  == [st EXCEPT !.nodes[id].importedContent =
                    [k \in DOMAIN cn.importedContent \cup DOMAIN c.importedContent |->
                        IF k \in DOMAIN c.importedContent
                        THEN c.importedContent[k] ELSE cn.importedContent[k]]]
    IN  IF ~cn.inContentUpdate THEN OnComponentUpdate(st1, id) ELSE st1

OnChildrenContentUpdate(st, id, child) ==
    LET c      == st.nodes[child]
        cn     == st.nodes[id]
        scoped == {ScopedName(c.label, d) : d \in DOMAIN c.importedContent}
        st1    == [st EXCEPT !.nodes[id].importedContent =
                    [k \in DOMAIN cn.importedContent \cup scoped |->
                        IF k \in scoped
                        THEN c.importedContent[CHOOSE d \in DOMAIN c.importedContent :
                                                   ScopedName(c.label, d) = k]
                        ELSE cn.importedContent[k]]]
    IN  IF ~cn.inContentUpdate THEN OnComponentUpdate(st1, id) ELSE st1

\* A processDeclareBlock without the check of the label: a later block
\* with the same label overwrites the body.
processDeclareBlockOverwrites(st, id, stmt, content) ==
    LET body == GoSlice(content, stmt.LCurlyPos + 1, stmt.RCurlyPos - 1)
    IN  IF body.panic
        THEN [st EXCEPT !.panic = TRUE]
        ELSE [st EXCEPT !.nodes[id].importedContent = Put(@, stmt.Label, body.s)]

\* processDeclareBlock; the slice expression panics when it is out of range
processDeclareBlock(st, id, stmt, content) ==
    IF stmt.Label \in DOMAIN st.nodes[id].importedContent
    THEN st
    ELSE LET body == GoSlice(content, stmt.LCurlyPos + 1, stmt.RCurlyPos - 1)
         IN  IF body.panic
             THEN [st EXCEPT !.panic = TRUE]
             ELSE [st EXCEPT !.nodes[id].importedContent = Put(@, stmt.Label, body.s)]

\* processImportBlock: the new child gets the next free address
processImportBlock(st, id, stmt) ==
    IF stmt.Label \in DOMAIN st.nodes[id].importConfigNodesChildren
    THEN st
    ELSE [st EXCEPT !.nodes = Append(@, NewImportConfigNode(stmt.Label, id)),
                    !.nodes[id].importConfigNodesChildren =
                        Put(@, stmt.Label, Len(st.nodes) + 1)]

processNodeBody(st, id, Body, content) ==
    IF Body = << >> \/ st.panic THEN st
    ELSE LET stmt == Head(Body)
             st1  == IF stmt.stmt = "BlockStmt"
                     THEN IF stmt.Name = BlockDeclare
                          THEN processDeclareBlock(st, id, stmt, content)
                          ELSE IF stmt.Name = BlockImportFile
                          THEN processImportBlock(st, id, stmt)
                          ELSE st
                     ELSE st
         IN  processNodeBody(st1, id, Tail(Body), content)

\* What the source of a node hands to onContentUpdate when it is evaluated
\* or when it polls: the text of the node's file.
SourceContent(node) == files[IF node.parent = 0 THEN "r" ELSE node.label]

\* child.Evaluate with an empty scope: the child's source is built and reads
\* its file; a file that exists is delivered to the child's onContentUpdate
\* before Evaluate returns.
Evaluate(st, id) ==
    LET content == SourceContent(st.nodes[id])
    IN  IF content = NoFile THEN st
        ELSE onContentUpdate([st EXCEPT !.nodes[id].seen = content], id, content)

\* evaluateChildren over the children that are left to evaluate
evaluateChildren(st, id, todo) ==
    IF todo = {} \/ st.panic THEN st
    ELSE LET l == CHOOSE x \in todo : TRUE
         IN  evaluateChildren(Evaluate(st, st.nodes[id].importConfigNodesChildren[l]),
                              id, todo \ {l})

\* A start of onContentUpdate that keeps the maps of the last revision.
resetContentKeepsMaps(st, id) ==
    [st EXCEPT !.nodes[id].inContentUpdate = TRUE]

\* The start of onContentUpdate: the flag is set and both maps are replaced
\* by empty ones.
resetContent(st, id) ==
    [st EXCEPT !.nodes[id].inContentUpdate = TRUE,
               !.nodes[id].importedContent = EmptyMap,
               !.nodes[id].importConfigNodesChildren = EmptyMap]

\* onContentUpdate, from taking importedContentMut to releasing it.  A panic
\* leaves through the deferred Unlock with everything as it was at the
\* panic.
onContentUpdate(st, id, content) ==
    LET st1  == resetContent(st, id)
        node == ParseFile(content)
    IN  IF node.err THEN st1
        ELSE LET st2 == processNodeBody(st1, id, node.Body, content)
                 st3 == evaluateChildren(st2, id,
                                         DOMAIN st2.nodes[id].importConfigNodesChildren)
             IN  IF st3.panic THEN st3
                 ELSE LET st4 == [st3 EXCEPT !.nodes[id].lastUpdateTime = st.now]
                          st5 == OnComponentUpdate(st4, id)
                      IN  [st5 EXCEPT !.nodes[id].inContentUpdate = FALSE]

\* A ModuleContent that answers a missing name with an empty body and no
\* error.
ModuleContentNoError(node, scopedName) ==
    IF scopedName \in DOMAIN node.importedContent
    THEN [content |-> node.importedContent[scopedName], err |-> FALSE]
    ELSE [content |-> << >>, err |-> FALSE]

\* ModuleContent
ModuleContent(node, scopedName) ==
    IF scopedName \in DOMAIN node.importedContent
    THEN [content |-> node.importedContent[scopedName], err |-> FALSE]
    ELSE [content |-> << >>, err |-> TRUE]

(***************************************************************************)
(* Import node: the files, the calls made on the nodes, SpecImport         *)
(***************************************************************************)
\* the bodies of the declare blocks that are written: empty, a body that
\* ends right before the closing brace, a body that ends in a blank
Bodies == {<< >>, <<"x">>, <<"x", " ">>}

\* a text whose block is never closed: parser.ParseFile returns an error
Unclosed == <<BlockDeclare, "a", "{", "x">>

\* The texts written to each file.  File r is read by node 1 and may import
\* file m, file m may import file n, file n imports nothing.
TextsOf(f) ==
    IF f = "n" THEN {DeclareText("a", b) : b \in Bodies} \cup {Unclosed}
    ELSE IF f = "m"
    THEN {ImportText("n"),
          DeclareText("a", <<"x", " ">>) \o ImportText("n"),
          Unclosed}
    ELSE {ImportText("m"),
          DeclareText("a", <<"x", " ">>) \o DeclareText("a", <<"x">>)
              \o ImportText("m") \o ImportText("m"),
          Unclosed}
         \cup {ForbiddenText \o DeclareText("a", b) \o AttributeText
                   \o ImportText("m") \o ForbiddenText : b \in Bodies}

\* the names ModuleContent is asked for
ScopedNames == {"a", "m.a", "m.n.a", "b"}

\* the addresses nodes are built at: a content update of node 1 builds at
\* most two nodes, and there is one more update than there are writes
NodeIds == 1..(2 * MaxWrites + 3)

NoICall == [op |-> "new", node |-> 0, text |-> NoFile, ret |-> "",
            notified |-> 0, name |-> "", content |-> << >>, before |-> {},
            built |-> 0]

\* the nodes whose Run a Run of node id starts, itself included (Run,
\* runChildren)
RECURSIVE RunTree(_, _)
RunTree(ns, id) ==
    LET kids == {ns[id].importConfigNodesChildren[l] :
                    l \in DOMAIN ns[id].importConfigNodesChildren}
    IN  {id} \cup UNION {RunTree(ns, k) : k \in kids}

\* A file is written.
WriteFile(f, text) ==
    /\ ~ictl.crashed
    /\ ictl.writes < MaxWrites
    /\ files[f] # text
    /\ files' = [files EXCEPT ![f] = text]
    /\ ictl' = [ictl EXCEPT !.writes = @ + 1]
    /\ ilast' = [NoICall EXCEPT !.op = "WriteFile", !.text = text]
    /\ UNCHANGED nodes
    /\ UNCHANGED notImport

\* the source of node id is at work and its file holds a revision that it
\* has not delivered yet
ContentPending(id) ==
    /\ ~ictl.crashed
    /\ id \in DOMAIN nodes
    /\ id = Root \/ nodes[id].running
    /\ SourceContent(nodes[id]) # NoFile
    /\ SourceContent(nodes[id]) # nodes[id].seen

\* The source of node id observes a revision of its file that it has not
\* delivered yet and calls onContentUpdate with it, once: the source of
\* node 1 when the controller evaluates the node or while it runs, the
\* source of any other node while the node runs.  A panic that nothing
\* recovers ends the process.
ContentChange(id) ==
    /\ ContentPending(id)
    /\ LET content == SourceContent(nodes[id])
           st == onContentUpdate([nodes    |-> [nodes EXCEPT ![id].seen = content],
                                  notified |-> 0,
                                  now      |-> ictl.steps + 1,
                                  panic    |-> FALSE], id, content)
       IN  /\ nodes' = st.nodes
           /\ ictl' = [ictl EXCEPT !.notified = @ + st.notified,
                                   !.steps = @ + 1,
                                   !.crashed = st.panic]
           /\ ilast' = [NoICall EXCEPT
                           !.op = "onContentUpdate", !.node = id, !.text = content,
                           !.ret = IF st.panic THEN "panic"
                                   ELSE IF ParseFile(content).err THEN "parse error"
                                   ELSE "ok",
                           !.notified = st.notified,
                           !.before = DOMAIN nodes[id].importedContent,
                           !.built = Len(nodes)]
    /\ UNCHANGED files
    /\ UNCHANGED notImport

\* The controller runs node 1: Run starts the Run of every child the node
\* has at that moment, and so on down.
StartRun ==
    /\ ~ictl.crashed
    /\ ~ictl.running
    /\ nodes' = [i \in DOMAIN nodes |->
                    IF i \in RunTree(nodes, Root)
                    THEN [nodes[i] EXCEPT !.running = TRUE] ELSE nodes[i]]
    /\ ictl' = [ictl EXCEPT !.running = TRUE]
    /\ ilast' = [NoICall EXCEPT !.op = "Run", !.node = Root]
    /\ UNCHANGED files
    /\ UNCHANGED notImport

\* ModuleContent(scopedName) is called on node id; the controller resolves
\* the names of a module through the node it built, node 1.
CallModuleContent(id, scopedName) ==
    /\ ~ictl.crashed
    /\ id \in DOMAIN nodes
    /\ LET r == ModuleContent(nodes[id], scopedName)
       IN  ilast' = [NoICall EXCEPT !.op = "ModuleContent", !.node = id,
                                    !.name = scopedName,
                                    !.content = r.content,
                                    !.ret = IF r.err THEN "error" ELSE "nil"]
    /\ UNCHANGED <<files, nodes, ictl>>
    /\ UNCHANGED notImport

\* The configuration's import block has been built.  Either no file exists
\* yet, or r imports m, m imports n and n declares "a".
ImportInit ==
    /\ files \in {[f \in FileNames |-> NoFile],
                  [r |-> ImportText("m"), m |-> ImportText("n"),
                   n |-> DeclareText("a", <<"x">>)]}
    /\ nodes = <<NewImportConfigNode("r", 0)>>
    /\ ictl = [notified |-> 0, steps |-> 0, writes |-> 0,
               running |-> FALSE, crashed |-> FALSE]
    /\ ilast = NoICall
    /\ RelabelIdle
    /\ UnregIdle
    /\ RaceIdle
    /\ RunIdle
    /\ ConcIdle
    /\ ConsumerIdle
    /\ LoaderIdle

ImportNext ==
    \/ \E f \in FileNames : \E text \in TextsOf(f) : WriteFile(f, text)
    \/ \E id \in NodeIds : ContentChange(id)
    \/ StartRun
    \/ \E scopedName \in ScopedNames : CallModuleContent(Root, scopedName)

SpecImport == ImportInit /\ [][ImportNext]_vars

(***************************************************************************)
(* Import node: claims C11, C13 - C17, C25, C27, C36, C37, C39              *)
(***************************************************************************)
\* the declare and import blocks at the top level of a text that parses
BlocksNamed(text, name) ==
    LET Body == ParseFile(text).Body
    IN  {Body[i] : i \in {j \in 1..Len(Body) :
                            Body[j].stmt = "BlockStmt" /\ Body[j].Name = name}}

\* the characters strictly between the braces of a block
Between(text, stmt) == SubSeq(text, stmt.LCurlyPos + 2, stmt.RCurlyPos)

\* onContentUpdate was the last call, with a text that parses
Delivered == ilast.op = "onContentUpdate" /\ ~ParseFile(ilast.text).err

\* C11: after a content update, ModuleContent(name) returns, for every
\* top-level block declare "name" { body } of the delivered text, exactly the
\* characters strictly between the block's braces and no error, the empty
\* body and a body that ends right before the closing brace included.
C11_DeclareBodyVerbatim ==
    Delivered =>
        \A stmt \in BlocksNamed(ilast.text, BlockDeclare) :
            ModuleContent(nodes[ilast.node], stmt.Label) =
                [content |-> Between(ilast.text, stmt), err |-> FALSE]

\* C13: a revision of a nested import that parses, arriving while node 1 is
\* not in onContentUpdate (no two calls overlap in this specification),
\* makes node 1 notify the controller exactly once.
C13_OneNotificationPerRevision ==
    (ilast.op = "onContentUpdate" /\ ilast.node # Root /\ ilast.ret = "ok")
        => ilast.notified = 1

\* C14: when onContentUpdate is given a text that does not parse, the node
\* ends with an empty importedContent and an empty child map, so that every
\* ModuleContent lookup fails, its lastUpdateTime is the one it had, and the
\* controller has not been notified.
C14_ParseErrorEmpties ==
    [][ (ilast'.op = "onContentUpdate" /\ ilast'.ret = "parse error") =>
            LET id == ilast'.node
            IN  /\ nodes'[id].importedContent = EmptyMap
                /\ nodes'[id].importConfigNodesChildren = EmptyMap
                /\ \A name \in ScopedNames \cup ilast'.before :
                       ModuleContent(nodes'[id], name).err
                /\ nodes'[id].lastUpdateTime = nodes[id].lastUpdateTime
                /\ ictl'.notified = ictl.notified ]_vars

\* A text that does not parse reached a node whose last revision published
\* names and stamped the time.
C14_Witness ==
    /\ ilast.op = "onContentUpdate"
    /\ ilast.ret = "parse error"
    /\ ilast.before # {}
    /\ nodes[ilast.node].lastUpdateTime > 0

\* a text has a forbidden construct at its top level
HasForbidden(text) ==
    LET Body == ParseFile(text).Body
    IN  \E i \in 1..Len(Body) :
            \/ Body[i].stmt # "BlockStmt"
            \/ Body[i].Name \notin {BlockDeclare, BlockImportFile}

\* C15: a content update of node 1 whose text has a forbidden top-level
\* construct still publishes every declare block and every import block of
\* the text, stamps lastUpdateTime and notifies the controller.
C15_ForbiddenSkipped ==
    (Delivered /\ ilast.node = Root /\ HasForbidden(ilast.text)) =>
        /\ \A stmt \in BlocksNamed(ilast.text, BlockDeclare) :
               stmt.Label \in DOMAIN nodes[Root].importedContent
        /\ \A stmt \in BlocksNamed(ilast.text, BlockImportFile) :
               stmt.Label \in DOMAIN nodes[Root].importConfigNodesChildren
        /\ nodes[Root].lastUpdateTime = ictl.steps
        /\ ilast.notified = 1

\* C16: ModuleContent(name) returns the stored body and no error when name
\* is a key of importedContent, an empty string and an error when it is
\* not, and leaves every node as it was.
C16_ModuleContentLookup ==
    [][ ilast'.op = "ModuleContent" =>
            LET node == nodes[ilast'.node]
            IN  /\ ilast'.name \in DOMAIN node.importedContent =>
                       /\ ilast'.ret = "nil"
                       /\ ilast'.content = node.importedContent[ilast'.name]
                /\ ilast'.name \notin DOMAIN node.importedContent =>
                       /\ ilast'.ret = "error"
                       /\ ilast'.content = << >>
                /\ nodes' = nodes ]_vars

\* A name the node does not publish was asked of a node that publishes
\* others.
C16_Witness ==
    /\ ilast.op = "ModuleContent"
    /\ ilast.ret = "error"
    /\ DOMAIN nodes[ilast.node].importedContent # {}

\* parent has every name of child under the child's label, with its body
HasScoped(parent, child) ==
    \A d \in DOMAIN child.importedContent :
        ModuleContent(parent, ScopedName(child.label, d)) =
            [content |-> child.importedContent[d], err |-> FALSE]

\* C17: when a child with label L reports a content update, the parent's
\* ModuleContent("L.d") returns the child's body for every name d the child
\* holds, names under a nested namespace included, and the parent's other
\* keys keep their bodies.  A child reports at the end of an onContentUpdate
\* that parsed, and a parent that is not in its own content update reports
\* in turn; a node that has just evaluated its children has had their
\* reports.
C17_ChildNamesScoped ==
    [][ (ilast'.op = "onContentUpdate" /\ ilast'.ret = "ok") =>
            LET id == ilast'.node
                cn == nodes'[id]
                p  == cn.parent
            IN  /\ \A l \in DOMAIN cn.importConfigNodesChildren :
                       HasScoped(cn, nodes'[cn.importConfigNodesChildren[l]])
                /\ p # 0 =>
                       /\ HasScoped(nodes'[p], cn)
                       /\ \A k \in DOMAIN nodes[p].importedContent :
                              \/ \E d \in DOMAIN cn.importedContent :
                                     k = ScopedName(cn.label, d)
                              \/ nodes'[p].importedContent[k] = nodes[p].importedContent[k]
                       /\ (nodes'[p].parent # 0 /\ ~nodes'[p].inContentUpdate) =>
                              HasScoped(nodes'[nodes'[p].parent], nodes'[p]) ]_vars

\* The node of the innermost file reported a revision on its own, and node 1
\* holds the name under both labels next to a declare of its own.
C17_Witness ==
    /\ ilast.op = "onContentUpdate"
    /\ ilast.ret = "ok"
    /\ ilast.node # Root
    /\ nodes[ilast.node].parent # Root
    /\ nodes[ilast.node].seen = DeclareText("a", <<"x", " ">>)
    /\ "m.n.a" \in DOMAIN nodes[Root].importedContent
    /\ nodes[Root].importedContent["m.n.a"] = <<"x">>
    /\ "a" \in DOMAIN nodes[Root].importedContent

\* C25: inContentUpdate is true only while an onContentUpdate call on the
\* node is executing: whenever no call is executing (between two calls in
\* this specification) and the process is alive, the flag of every node is
\* false, whichever way the last onContentUpdate returned.
C25_FlagClearedOnReturn ==
    ~ictl.crashed => \A id \in DOMAIN nodes : ~nodes[id].inContentUpdate

\* C27: a content update of node 1 whose text parses delivers exactly one
\* notification to the controller, however many import blocks are below it,
\* and the names its children reported while it was in flight are in its
\* importedContent.
C27_OneNotificationPerUpdate ==
    (Delivered /\ ilast.node = Root) =>
        /\ ilast.notified = 1
        /\ \A l \in DOMAIN nodes[Root].importConfigNodesChildren :
               HasScoped(nodes[Root], nodes[nodes[Root].importConfigNodesChildren[l]])

\* the labels of the declare blocks of the text a node was given last
DeclareLabels(node) ==
    IF node.seen = NoFile THEN {}
    ELSE {stmt.Label : stmt \in BlocksNamed(node.seen, BlockDeclare)}

\* the names a child can hold
ChildNames == {"a", "n.a", "m.a", "m.n.a"}

\* C36: every key of a node's imported-declares map is the label of a
\* declare block of the node's current content, or childLabel.name with
\* childLabel a key of the node's current child map.
C36_KeysFromContent ==
    \A id \in DOMAIN nodes :
        \A k \in DOMAIN nodes[id].importedContent :
            \/ k \in DeclareLabels(nodes[id])
            \/ \E l \in DOMAIN nodes[id].importConfigNodesChildren :
                   \E d \in ChildNames : k = ScopedName(l, d)

\* node id is in the child map of the node that built it
IsCurrentChild(id) ==
    LET parent == nodes[nodes[id].parent]
    IN  /\ nodes[id].label \in DOMAIN parent.importConfigNodesChildren
        /\ parent.importConfigNodesChildren[nodes[id].label] = id

\* C37: while a node runs, every node of its current child map runs, and a
\* node that its parent has dropped from the child map does not run.
C37_ChildrenRunWithParent ==
    ~ictl.crashed =>
        \A id \in DOMAIN nodes :
            /\ nodes[id].running =>
                   \A l \in DOMAIN nodes[id].importConfigNodesChildren :
                       nodes[nodes[id].importConfigNodesChildren[l]].running
            /\ (id # Root /\ nodes[id].running) => IsCurrentChild(id)

\* the first block of the text with this name and label
FirstBlock(text, name, label) ==
    LET Body == ParseFile(text).Body
        at   == {j \in 1..Len(Body) : /\ Body[j].stmt = "BlockStmt"
                                      /\ Body[j].Name = name
                                      /\ Body[j].Label = label}
    IN  Body[CHOOSE j \in at : \A k \in at : j <= k]

\* the body that is published when the block is the only one of its label
PublishedAlone(stmt, content) ==
    processDeclareBlock([nodes |-> <<NewImportConfigNode("r", 0)>>, notified |-> 0,
                         now |-> 0, panic |-> FALSE],
                        1, stmt, content).nodes[1].importedContent[stmt.Label]

\* the nodes that the last call has built for node id with this label
BuiltFor(id, label) ==
    {c \in DOMAIN nodes :
        c > ilast.built /\ nodes[c].parent = id /\ nodes[c].label = label}

\* C39: when a content update of node 1 has returned, the body published
\* under the label of a declare block is that of the first block with the
\* label in the text, and for the label of an import block one node has
\* been built, the one in the child map.
C39_FirstLabelWins ==
    (Delivered /\ ilast.ret = "ok" /\ ilast.node = Root) =>
        /\ \A stmt \in BlocksNamed(ilast.text, BlockDeclare) :
              ModuleContent(nodes[Root], stmt.Label) =
                 [content |-> PublishedAlone(
                                 FirstBlock(ilast.text, BlockDeclare, stmt.Label),
                                 ilast.text),
                  err |-> FALSE]
        /\ \A stmt \in BlocksNamed(ilast.text, BlockImportFile) :
              /\ Cardinality(BuiltFor(Root, stmt.Label)) = 1
              /\ nodes[Root].importConfigNodesChildren[stmt.Label]
                     \in BuiltFor(Root, stmt.Label)

\* The text delivered to node 1 has two declare blocks "a" and two import
\* blocks "m"; alone, the second declare block would publish another body
\* than the first.
C39_Witness ==
    /\ Delivered
    /\ ilast.ret = "ok"
    /\ ilast.node = Root
    /\ Cardinality(BlocksNamed(ilast.text, BlockDeclare)) = 2
    /\ Cardinality(BlocksNamed(ilast.text, BlockImportFile)) = 2
    /\ \E s1, s2 \in BlocksNamed(ilast.text, BlockDeclare) :
          /\ s1.Label = s2.Label
          /\ PublishedAlone(s1, ilast.text) # PublishedAlone(s2, ilast.text)
    /\ nodes[Root].importedContent["a"] = <<"x">>

(***************************************************************************)
(* Import node: the goroutines that call one node, statement by statement  *)
(*                                                                         *)
(* The node has been evaluated with a text that declares "a" and imports   *)
(* "m", whose file declares "a" and "b"; the node and its child run.       *)
(*   "source"  the node's source, calling the node's onContentUpdate       *)
(*   "child"   the child's source, calling the child's onContentUpdate,    *)
(*             which ends in the node's OnChildrenContentUpdate            *)
(*   "reader"  the controller, calling the node's ModuleContent            *)
(* importedContent maps each name to the revision of the file its body     *)
(* came from.  cenv.steps lists, in the order in which they were made, the *)
(* steps of the source's onContentUpdate since it took the lock.           *)
(***************************************************************************)
\* revisions of each file that are observed after the start
MaxRevisions == 2

Goroutines == {"source", "child", "reader"}

\* the goroutine is inside a write to the node's importedContent: the child
\* inside a map assignment, the source from replacing the map to its last
\* assignment of the update
Writing(g) ==
    \/ g = "child" /\ gpc[g] \in {"assign1", "assign2"}
    \/ g = "source" /\ gpc[g] \in {"locked", "reset", "own", "kid1"}

\* the goroutine has written some of the names of its update and not yet
\* all of them
MidUpdate(g) ==
    \/ g = "child" /\ gpc[g] \in {"assign1", "wrote1", "assign2"}
    \/ g = "source" /\ gpc[g] \in {"reset", "own", "kid1"}

\* onContentUpdate, lines 187-188: Lock
SourceLock ==
    /\ ~cenv.fatal
    /\ gpc["source"] = "idle"
    /\ cenv.r < MaxRevisions
    /\ importedContentMut = ""
    /\ importedContentMut' = "source"
    /\ gpc' = [gpc EXCEPT !["source"] = "locked"]
    /\ cenv' = [cenv EXCEPT !.r = @ + 1, !.steps = << >>]
    /\ UNCHANGED pnode
    /\ UNCHANGED notRace

\* lines 189-192: the flag is set and importedContent is a new, empty map
SourceReset ==
    /\ ~cenv.fatal
    /\ gpc["source"] = "locked"
    /\ pnode' = [pnode EXCEPT !.inContentUpdate = TRUE,
                              !.importedContent = EmptyMap,
                              !.made = @ + 1]
    /\ gpc' = [gpc EXCEPT !["source"] = "reset"]
    /\ UNCHANGED <<importedContentMut, cenv>>
    /\ UNCHANGED notRace

\* lines 193-197: the text does not parse; the deferred Unlock runs
SourceParseError ==
    /\ ~cenv.fatal
    /\ gpc["source"] = "reset"
    /\ importedContentMut' = ""
    /\ gpc' = [gpc EXCEPT !["source"] = "idle"]
    /\ UNCHANGED <<pnode, cenv>>
    /\ UNCHANGED notRace

\* line 198: processNodeBody stores the declare "a" and builds the child
SourceProcess ==
    /\ ~cenv.fatal
    /\ gpc["source"] = "reset"
    /\ pnode' = [pnode EXCEPT !.importedContent = Put(@, "a", [file |-> "r", rev |-> cenv.r])]
    /\ gpc' = [gpc EXCEPT !["source"] = "own"]
    /\ UNCHANGED <<importedContentMut, cenv>>
    /\ UNCHANGED notRace

\* line 199: evaluateChildren; the new child reads its file and reports,
\* and OnChildrenContentUpdate stores its names one after the other, in the
\* source's goroutine; with the last name evaluateChildren returns
SourceChildName(from, to, name) ==
    /\ ~cenv.fatal
    /\ gpc["source"] = from
    /\ pnode' = [pnode EXCEPT !.importedContent =
                    Put(@, ScopedName("m", name), [file |-> "m", rev |-> cenv.m])]
    /\ gpc' = [gpc EXCEPT !["source"] = to]
    /\ cenv' = [cenv EXCEPT !.steps = IF to = "kid2" THEN Append(@, "evaluated") ELSE @]
    /\ UNCHANGED importedContentMut
    /\ UNCHANGED notRace

\* line 200: cn.lastUpdateTime.Store(time.Now()); the time is the number of
\* the revision
SourceStamp ==
    /\ ~cenv.fatal
    /\ gpc["source"] = "kid2"
    /\ pnode' = [pnode EXCEPT !.lastUpdateTime = cenv.r]
    /\ gpc' = [gpc EXCEPT !["source"] = "stamped"]
    /\ cenv' = [cenv EXCEPT !.steps = Append(@, "stamped")]
    /\ UNCHANGED importedContentMut
    /\ UNCHANGED notRace

\* A notification that is made after the flag has been cleared.
SourceNotifyAfterClear ==
    /\ ~cenv.fatal
    /\ gpc["source"] = "stamped"
    /\ pnode' = [pnode EXCEPT !.inContentUpdate = FALSE, !.notified = @ + 1]
    /\ gpc' = [gpc EXCEPT !["source"] = "notified"]
    /\ cenv' = [cenv EXCEPT !.steps = Append(Append(@, "cleared"), "notified")]
    /\ UNCHANGED importedContentMut
    /\ UNCHANGED notRace

\* line 201: cn.OnComponentUpdate(cn)
SourceNotify ==
    /\ ~cenv.fatal
    /\ gpc["source"] = "stamped"
    /\ pnode' = [pnode EXCEPT !.notified = @ + 1]
    /\ gpc' = [gpc EXCEPT !["source"] = "notified"]
    /\ cenv' = [cenv EXCEPT !.steps = Append(@, "notified")]
    /\ UNCHANGED importedContentMut
    /\ UNCHANGED notRace

\* lines 202-203: the flag is cleared and the deferred Unlock runs
SourceFinish ==
    /\ ~cenv.fatal
    /\ gpc["source"] = "notified"
    /\ pnode' = [pnode EXCEPT !.inContentUpdate = FALSE]
    /\ importedContentMut' = ""
    /\ gpc' = [gpc EXCEPT !["source"] = "idle"]
    /\ cenv' = [cenv EXCEPT !.steps = Append(@, "cleared")]
    /\ UNCHANGED notRace

\* The child's source observes a revision; the child's onContentUpdate runs
\* under the child's own lock up to its call of OnComponentUpdate, which is
\* the node's OnChildrenContentUpdate.
ChildUpdate ==
    /\ ~cenv.fatal
    /\ gpc["child"] = "idle"
    /\ cenv.m < MaxRevisions
    /\ cenv' = [cenv EXCEPT !.m = @ + 1]
    /\ gpc' = [gpc EXCEPT !["child"] = "report"]
    /\ UNCHANGED <<importedContentMut, pnode>>
    /\ UNCHANGED notRace

\* lines 243-246: cn.importedContent[label] = content begins: the map that
\* cn.importedContent names at this moment is the one assigned to
ChildAssignBegins(from, to) ==
    /\ ~cenv.fatal
    /\ gpc["child"] = from
    /\ gpc' = [gpc EXCEPT !["child"] = to]
    /\ cenv' = [cenv EXCEPT !.into = pnode.made]
    /\ UNCHANGED <<importedContentMut, pnode>>
    /\ UNCHANGED notRace

\* the assignment ends; it is lost with the map when the node has replaced
\* importedContent in between
ChildAssignEnds(from, to, name) ==
    /\ ~cenv.fatal
    /\ gpc["child"] = from
    /\ gpc' = [gpc EXCEPT !["child"] = to]
    /\ pnode' = IF cenv.into = pnode.made
                THEN [pnode EXCEPT !.importedContent =
                         Put(@, ScopedName("m", name), [file |-> "m", rev |-> cenv.m])]
                ELSE pnode
    /\ UNCHANGED <<importedContentMut, cenv>>
    /\ UNCHANGED notRace

\* lines 249-251: the flag is read and the controller notified
ChildNotify ==
    /\ ~cenv.fatal
    /\ gpc["child"] = "wrote2"
    /\ pnode' = IF ~pnode.inContentUpdate
                THEN [pnode EXCEPT !.notified = @ + 1] ELSE pnode
    /\ gpc' = [gpc EXCEPT !["child"] = "idle"]
    /\ UNCHANGED <<importedContentMut, cenv>>
    /\ UNCHANGED notRace

\* ModuleContent, lines 255-256: Lock
ReaderLock ==
    /\ ~cenv.fatal
    /\ gpc["reader"] = "idle"
    /\ importedContentMut = ""
    /\ importedContentMut' = "reader"
    /\ gpc' = [gpc EXCEPT !["reader"] = "locked"]
    /\ UNCHANGED <<pnode, cenv>>
    /\ UNCHANGED notRace

\* lines 257-260: the lookup
ReaderLookup(scopedName) ==
    /\ ~cenv.fatal
    /\ gpc["reader"] = "locked"
    /\ cenv' = [cenv EXCEPT !.got = ModuleContent(pnode, scopedName)]
    /\ gpc' = [gpc EXCEPT !["reader"] = "looked"]
    /\ UNCHANGED <<importedContentMut, pnode>>
    /\ UNCHANGED notRace

\* the deferred Unlock
ReaderUnlock ==
    /\ ~cenv.fatal
    /\ gpc["reader"] = "looked"
    /\ importedContentMut' = ""
    /\ gpc' = [gpc EXCEPT !["reader"] = "idle"]
    /\ UNCHANGED <<pnode, cenv>>
    /\ UNCHANGED notRace

\* A map assignment that runs while another goroutine reads or writes the
\* same map is a data race; the Go runtime may notice it and end the
\* process (fatal error: concurrent map read and map write, concurrent map
\* writes), or not notice it.
RuntimeThrows ==
    /\ ~cenv.fatal
    /\ gpc["child"] \in {"assign1", "assign2"}
    /\ cenv.into = pnode.made
    /\ gpc["reader"] = "locked" \/ gpc["source"] \in {"reset", "own", "kid1"}
    /\ cenv' = [cenv EXCEPT !.fatal = TRUE]
    /\ UNCHANGED <<gpc, importedContentMut, pnode>>
    /\ UNCHANGED notRace

RaceInit ==
    /\ gpc = [g \in Goroutines |-> "idle"]
    /\ importedContentMut = ""
    /\ pnode = [importedContent |->
                    Put(Put(Put(EmptyMap, "a", [file |-> "r", rev |-> 0]),
                            "m.a", [file |-> "m", rev |-> 0]),
                        "m.b", [file |-> "m", rev |-> 0]),
                inContentUpdate |-> FALSE, notified |-> 1, made |-> 1,
                lastUpdateTime |-> 0]
    /\ cenv = [r |-> 0, m |-> 0, into |-> 0, fatal |-> FALSE, steps |-> << >>,
               got |-> [content |-> << >>, err |-> FALSE]]
    /\ RelabelIdle
    /\ UnregIdle
    /\ ImportIdle
    /\ RunIdle
    /\ ConcIdle
    /\ ConsumerIdle
    /\ LoaderIdle

RaceNext ==
    \/ SourceLock
    \/ SourceReset
    \/ SourceParseError
    \/ SourceProcess
    \/ SourceChildName("own", "kid1", "a")
    \/ SourceChildName("kid1", "kid2", "b")
    \/ SourceStamp
    \/ SourceNotify
    \/ SourceFinish
    \/ ChildUpdate
    \/ ChildAssignBegins("report", "assign1")
    \/ ChildAssignEnds("assign1", "wrote1", "a")
    \/ ChildAssignBegins("wrote1", "assign2")
    \/ ChildAssignEnds("assign2", "wrote2", "b")
    \/ ChildNotify
    \/ ReaderLock
    \/ \E scopedName \in {"a", "m.a", "m.b"} : ReaderLookup(scopedName)
    \/ ReaderUnlock
    \/ RuntimeThrows

SpecImportRace == RaceInit /\ [][RaceNext]_vars

\* C12: every write to the node's importedContent is made by a goroutine
\* that holds the node's importedContentMut, so that while ModuleContent
\* holds the lock no other goroutine is inside a write or between the first
\* and the last write of an update.
C12_WritesUnderLock ==
    /\ \A g \in Goroutines : Writing(g) => importedContentMut = g
    /\ gpc["reader"] \in {"locked", "looked"} =>
           \A g \in Goroutines \ {"reader"} : ~Writing(g) /\ ~MidUpdate(g)

\* s is the beginning of t
IsPrefix(s, t) == Len(s) <= Len(t) /\ s = SubSeq(t, 1, Len(s))

\* the source's onContentUpdate is past its call of OnComponentUpdate and
\* has not cleared the flag yet
NotifiedNotCleared ==
    /\ Len(cenv.steps) > 0
    /\ cenv.steps[Len(cenv.steps)] = "notified"

\* C26 as the specification states it: in a content update that parses the
\* steps are made in the order children evaluated, lastUpdateTime stamped,
\* flag cleared, controller notified.
C26_ClearedThenNotified ==
    IsPrefix(cenv.steps, <<"evaluated", "stamped", "cleared", "notified">>)

\* C26: in a content update that parses the steps are made in the order
\* children evaluated, lastUpdateTime stamped, controller notified, flag
\* cleared: when the controller is notified the names of the children are
\* stored, the time of the revision is stamped and the flag is still set,
\* and the update ends with the four steps made.
C26_NotifiedThenCleared ==
    /\ IsPrefix(cenv.steps, <<"evaluated", "stamped", "notified", "cleared">>)
    /\ NotifiedNotCleared =>
           /\ pnode.inContentUpdate
           /\ pnode.lastUpdateTime = cenv.r
           /\ importedContentMut = "source"
    /\ (gpc["source"] = "idle" /\ cenv.steps # << >>) =>
           /\ Len(cenv.steps) = 4
           /\ pnode.lastUpdateTime = cenv.r

\* The source has notified the controller of its second revision and has
\* not cleared the flag yet.
C26_Witness ==
    /\ NotifiedNotCleared
    /\ cenv.r = 2
    /\ pnode.notified >= 3

(***************************************************************************)
(* ImportConfigNode.Run: one node, its source and its children             *)
(*                                                                         *)
(* The goroutines of one call of Run on a node with children 1..k, each    *)
(* child a node without children of its own:                               *)
(*   main         the caller of Run                                        *)
(*   source       go func() { errChan <- managed.Run(ctx) }                *)
(*   runChildren  go func() { errChan <- cn.runChildren(ctx) }             *)
(*   child[i]     go func(child) { child.Run(ctx) ... } of runChildren     *)
(*   childSource[i]  the source goroutine of child i's Run                 *)
(*   closer       go func() { wg.Wait(); close(errChildrenChan) }          *)
(* A source's Run returns an error at any moment, or nil once its context  *)
(* is cancelled.                                                           *)
(***************************************************************************)
\* children of the node
MaxChildren == 2

Nil == [who |-> "nil", i |-> 0]
ErrUnevaluated == [who |-> "ErrUnevaluated", i |-> 0]
SourceError == [who |-> "source", i |-> 0]
ChildError(i) == [who |-> "child", i |-> i]

Children == 1..rinfo.children

\* ctx of Run is done: the caller's context or the derived one is cancelled
RunCtxDone == rctx.parent \/ rctx.run
\* ctx of child i's Run is done
ChildCtxDone(i) == RunCtxDone \/ rctx.child[i]

\* Health.Message; the exit message formats the error into the text
HealthMessage(text, err) == [text |-> text, err |-> err]

\* lines 298-305: the message of the exit health
ExitMessage(err) ==
    IF err # Nil
    THEN HealthMessage("component shut down with error: ", err)
    ELSE HealthMessage("component shut down normally", Nil)

\* Evaluate: cn.source.Evaluate binds the arguments; nil when ok
EvaluateNode(ok) ==
    /\ rpc.main = "idle"
    /\ ~rinfo.evaluated
    /\ rinfo' = [rinfo EXCEPT !.evaluated = ok,
                              !.evalHealth = IF ok THEN "Healthy" ELSE "Unhealthy"]
    /\ UNCHANGED <<rpc, rchan, rctx>>
    /\ UNCHANGED notRun

\* Evaluate while Run is under way: the controller re-evaluates the node
ReevaluateNode(ok) ==
    /\ rpc.main = "recv"
    /\ rinfo.evalHealth # (IF ok THEN "Healthy" ELSE "Unhealthy")
    /\ rinfo' = [rinfo EXCEPT !.evaluated = @ \/ ok,
                              !.evalHealth = IF ok THEN "Healthy" ELSE "Unhealthy"]
    /\ UNCHANGED <<rpc, rchan, rctx>>
    /\ UNCHANGED notRun

\* Run, lines 269-293: up to the receive from errChan
RunStart ==
    /\ rpc.main = "idle"
    /\ IF rinfo.source = "nil"
       THEN /\ rpc' = [rpc EXCEPT !.main = "returned"]
            /\ rinfo' = [rinfo EXCEPT !.result = ErrUnevaluated,
                                      !.evaluatedAtRun = rinfo.evaluated]
       ELSE /\ rpc' = [rpc EXCEPT !.main = "recv",
                                  !.runChildren = IF rinfo.children > 0 THEN "start" ELSE @,
                                  !.source = "running"]
            /\ rinfo' = [rinfo EXCEPT !.runHealth = "Healthy",
                                      !.runMessage = HealthMessage("started component", Nil),
                                      !.evaluatedAtRun = rinfo.evaluated]
    /\ UNCHANGED <<rchan, rctx>>
    /\ UNCHANGED notRun

\* managed.Run(ctx) returns
SourceRunReturns(err) ==
    /\ rpc.source = "running"
    /\ err = Nil => RunCtxDone
    /\ rpc' = [rpc EXCEPT !.source = "send"]
    /\ rchan' = [rchan EXCEPT !.sourceRet = err]
    /\ rinfo' = [rinfo EXCEPT !.errs = IF err = Nil THEN @ ELSE Append(@, err)]
    /\ UNCHANGED rctx
    /\ UNCHANGED notRun

\* line 292: errChan <- ..., a channel of capacity 1
SourceSend ==
    /\ rpc.source = "send"
    /\ Len(rchan.errChan) < 1
    /\ rchan' = [rchan EXCEPT !.errChan = Append(@, rchan.sourceRet)]
    /\ rpc' = [rpc EXCEPT !.source = "done"]
    /\ UNCHANGED <<rctx, rinfo>>
    /\ UNCHANGED notRun

\* runChildren, lines 217-233: a goroutine for every child and the closer
RunChildrenStart ==
    /\ rpc.runChildren = "start"
    /\ rpc' = [rpc EXCEPT !.runChildren = "recv",
                          !.child = [i \in Children |-> "call"],
                          !.closer = "wait"]
    /\ UNCHANGED <<rchan, rctx, rinfo>>
    /\ UNCHANGED notRun

\* child.Run, lines 269-293, of a node without children
ChildRunStart(i) ==
    /\ i \in Children
    /\ rpc.child[i] = "call"
    /\ rpc' = [rpc EXCEPT !.child[i] = "recv", !.childSource[i] = "running"]
    /\ UNCHANGED <<rchan, rctx, rinfo>>
    /\ UNCHANGED notRun

\* the Run of child i's source returns and its result is sent on the
\* child's errChan, whose only sender it is
ChildSourceReturns(i, err) ==
    /\ i \in Children
    /\ rpc.childSource[i] = "running"
    /\ err = Nil => ChildCtxDone(i)
    /\ rchan' = [rchan EXCEPT !.childErrChan[i] = Append(@, err)]
    /\ rpc' = [rpc EXCEPT !.childSource[i] = "done"]
    /\ UNCHANGED <<rctx, rinfo>>
    /\ UNCHANGED notRun

\* child.Run, lines 295-308, returns what it received, and lines 224-226 of
\* runChildren: an error is sent on errChildrenChan, which has room for one
\* error of every child; wg.Done
ChildRunReturns(i) ==
    /\ i \in Children
    /\ rpc.child[i] = "recv"
    /\ rchan.childErrChan[i] # << >>
    /\ LET err == Head(rchan.childErrChan[i])
       IN  /\ rchan' = [rchan EXCEPT !.childErrChan[i] = Tail(@),
                                     !.errChildrenChan = IF err = Nil THEN @
                                                         ELSE Append(@, err)]
           /\ rinfo' = [rinfo EXCEPT !.errs = IF err = Nil THEN @ ELSE Append(@, err)]
    /\ rctx' = [rctx EXCEPT !.child[i] = TRUE]
    /\ rpc' = [rpc EXCEPT !.child[i] = "done"]
    /\ UNCHANGED notRun

\* lines 230-233: wg.Wait(); close(errChildrenChan)
CloserCloses ==
    /\ rpc.closer = "wait"
    /\ \A i \in Children : rpc.child[i] = "done"
    /\ rchan' = [rchan EXCEPT !.closed = TRUE]
    /\ rpc' = [rpc EXCEPT !.closer = "done"]
    /\ UNCHANGED <<rctx, rinfo>>
    /\ UNCHANGED notRun

\* A receive from errChildrenChan that does not wait: nil when the channel
\* is empty.
RunChildrenReceivesNoWait ==
    /\ rpc.runChildren = "recv"
    /\ rchan' = [rchan EXCEPT
                    !.childrenRet = IF rchan.errChildrenChan # << >>
                                    THEN Head(rchan.errChildrenChan) ELSE Nil,
                    !.errChildrenChan = IF @ # << >> THEN Tail(@) ELSE @]
    /\ rpc' = [rpc EXCEPT !.runChildren = "send"]
    /\ UNCHANGED <<rctx, rinfo>>
    /\ UNCHANGED notRun

\* line 235: return <-errChildrenChan; the first error, or nil once the
\* channel is closed and empty
RunChildrenReceives ==
    /\ rpc.runChildren = "recv"
    /\ rchan.errChildrenChan # << >> \/ rchan.closed
    /\ rchan' = [rchan EXCEPT
                    !.childrenRet = IF rchan.errChildrenChan # << >>
                                    THEN Head(rchan.errChildrenChan) ELSE Nil,
                    !.errChildrenChan = IF @ # << >> THEN Tail(@) ELSE @]
    /\ rpc' = [rpc EXCEPT !.runChildren = "send"]
    /\ UNCHANGED <<rctx, rinfo>>
    /\ UNCHANGED notRun

\* line 285: errChan <- ...
RunChildrenSend ==
    /\ rpc.runChildren = "send"
    /\ Len(rchan.errChan) < 1
    /\ rchan' = [rchan EXCEPT !.errChan = Append(@, rchan.childrenRet)]
    /\ rpc' = [rpc EXCEPT !.runChildren = "done"]
    /\ UNCHANGED <<rctx, rinfo>>
    /\ UNCHANGED notRun

\* A return of Run that leaves the run health as it is.
RunReceivesKeepsHealth ==
    /\ rpc.main = "recv"
    /\ rchan.errChan # << >>
    /\ rchan' = [rchan EXCEPT !.errChan = Tail(@)]
    /\ rinfo' = [rinfo EXCEPT !.result = Head(rchan.errChan)]
    /\ rctx' = [rctx EXCEPT !.run = TRUE]
    /\ rpc' = [rpc EXCEPT !.main = "returned"]
    /\ UNCHANGED notRun

\* Run, lines 295-308: err := <-errChan, the exit health, the deferred
\* cancel, return err
RunReceives ==
    /\ rpc.main = "recv"
    /\ rchan.errChan # << >>
    /\ rchan' = [rchan EXCEPT !.errChan = Tail(@)]
    /\ rinfo' = [rinfo EXCEPT !.result = Head(rchan.errChan),
                              !.runHealth = "Exited",
                              !.runMessage = ExitMessage(Head(rchan.errChan))]
    /\ rctx' = [rctx EXCEPT !.run = TRUE]
    /\ rpc' = [rpc EXCEPT !.main = "returned"]
    /\ UNCHANGED notRun

\* The caller of Run cancels the context it passed.
CancelCtx ==
    /\ ~rctx.parent
    /\ rctx' = [rctx EXCEPT !.parent = TRUE]
    /\ UNCHANGED <<rpc, rchan, rinfo>>
    /\ UNCHANGED notRun

\* NewImportConfigNode has built the node (cn.source is set, both healths
\* are Unknown) and a content update has given it its children.
RunInit ==
    /\ rinfo \in {[children |-> k, source |-> "set", evaluated |-> FALSE,
                   evaluatedAtRun |-> FALSE,
                   evalHealth |-> "Unknown", runHealth |-> "Unknown",
                   runMessage |-> HealthMessage("component created", Nil),
                   result |-> Nil, errs |-> << >>] : k \in 0..MaxChildren}
    /\ rpc = [main |-> "idle", source |-> "idle", runChildren |-> "idle",
              closer |-> "idle",
              child |-> [i \in Children |-> "idle"],
              childSource |-> [i \in Children |-> "idle"]]
    /\ rchan = [errChan |-> << >>, errChildrenChan |-> << >>, closed |-> FALSE,
                childErrChan |-> [i \in Children |-> << >>],
                sourceRet |-> Nil, childrenRet |-> Nil]
    /\ rctx = [parent |-> FALSE, run |-> FALSE, child |-> [i \in Children |-> FALSE]]
    /\ RelabelIdle
    /\ UnregIdle
    /\ ImportIdle
    /\ RaceIdle
    /\ ConcIdle
    /\ ConsumerIdle
    /\ LoaderIdle

RunNext ==
    \/ \E ok \in BOOLEAN : EvaluateNode(ok)
    \/ \E ok \in BOOLEAN : ReevaluateNode(ok)
    \/ RunStart
    \/ \E err \in {Nil, SourceError} : SourceRunReturns(err)
    \/ SourceSend
    \/ RunChildrenStart
    \/ \E i \in 1..MaxChildren : ChildRunStart(i)
    \/ \E i \in 1..MaxChildren : \E err \in {Nil, ChildError(i)} : ChildSourceReturns(i, err)
    \/ \E i \in 1..MaxChildren : ChildRunReturns(i)
    \/ CloserCloses
    \/ RunChildrenReceives
    \/ RunChildrenSend
    \/ RunReceives
    \/ CancelCtx

SpecRun == RunInit /\ [][RunNext]_vars

(***************************************************************************)
(* ImportConfigNode.Run: claims C18 - C20                                  *)
(***************************************************************************)
Returned == rpc.main = "returned"

\* the errors the source and the children have returned so far
ErrorsReturned == {rinfo.errs[n] : n \in 1..Len(rinfo.errs)}

\* Run has started the source and, for a node with children, runChildren
Started ==
    rpc.main \in {"recv", "returned"} =>
        /\ rpc.source # "idle"
        /\ rinfo.children > 0 => rpc.runChildren # "idle"

\* Run has returned only after an error of the source or of a child, or
\* after its context was cancelled, and nil only after the latter
ReturnsOnErrorOrCancel ==
    Returned =>
        /\ rctx.parent \/ rinfo.errs # << >>
        /\ rinfo.result = Nil => rctx.parent

C19_RunJoins ==
    Returned =>
        /\ rpc.source \in {"idle", "done"}
        /\ rpc.runChildren \in {"idle", "done"}
        /\ rpc.closer \in {"idle", "done"}
        /\ \A i \in Children : /\ rpc.child[i] \in {"idle", "done"}
                               /\ rpc.childSource[i] \in {"idle", "done"}

\* C20: Run called on a node whose Evaluate has never returned nil returns
\* ErrUnevaluated at once: the source and the children are not started and
\* the run health is not set to Healthy.
C20_UnevaluatedNotStarted ==
    (rpc.main # "idle" /\ ~rinfo.evaluatedAtRun) =>
        /\ Returned
        /\ rinfo.result = ErrUnevaluated
        /\ rpc.source = "idle"
        /\ rpc.runChildren = "idle"
        /\ rinfo.runHealth = "Unknown"

\* the run health that goes with the position of Run
HealthOfRun ==
    /\ rpc.main = "idle" =>
           /\ rinfo.runHealth = "Unknown"
           /\ rinfo.runMessage = HealthMessage("component created", Nil)
    /\ rpc.main = "recv" =>
           /\ rinfo.runHealth = "Healthy"
           /\ rinfo.runMessage = HealthMessage("started component", Nil)
    /\ Returned =>
           /\ rinfo.runHealth = "Exited"
           /\ rinfo.result # Nil =>
                  rinfo.runMessage =
                     HealthMessage("component shut down with error: ", rinfo.result)
           /\ rinfo.result = Nil =>
                  rinfo.runMessage = HealthMessage("component shut down normally", Nil)

\* C33: the run health is Unknown until Run starts, Healthy while Run is
\* under way, and Exited once Run has returned, with a message that holds
\* the error Run returned or reports a normal shutdown; it changes from
\* Unknown to Healthy and from Healthy to Exited only, and a step that
\* changes the evaluation health (Evaluate) leaves it alone.
C33_RunHealth ==
    [][ /\ HealthOfRun
        /\ HealthOfRun'
        /\ rinfo'.runHealth # rinfo.runHealth =>
               <<rinfo.runHealth, rinfo'.runHealth>> \in
                   {<<"Unknown", "Healthy">>, <<"Healthy", "Exited">>}
        /\ rinfo'.evalHealth # rinfo.evalHealth =>
               /\ rinfo'.runHealth = rinfo.runHealth
               /\ rinfo'.runMessage = rinfo.runMessage ]_vars

\* Run of a node has returned the error of its source after having been
\* Healthy; an evaluation that failed while Run was under way came last.
C33_Witness ==
    /\ Returned
    /\ rinfo.evaluated
    /\ rinfo.evaluatedAtRun
    /\ rinfo.evalHealth = "Unhealthy"
    /\ rinfo.result = SourceError
    /\ rinfo.runHealth = "Exited"

(***************************************************************************)
(* relabel.go: the goroutines that call one relabel component, statement   *)
(* by statement                                                            *)
(*                                                                         *)
(*   "p1", "p2"  two senders, each inside c.relabel for one and the same   *)
(*               series (global id 1), with a live or a stale sample       *)
(*   "u"         the controller, calling c.Update                          *)
(* A configuration is numbered by the Update that installed it, New's      *)
(* being 1.  rc.mrc is the number of the configuration whose rules are in  *)
(* c.mrc, rc.made that of the configuration c.cache was made for, and a    *)
(* cache entry or a relabelled series is the number of the configuration   *)
(* whose rules computed it.                                                *)
(***************************************************************************)
Relabelers == {"p1", "p2"}

\* the global id of the series that is sent
TheSeries == 1

NoLocals == [stale |-> FALSE, found |-> FALSE, newSeries |-> 0,
             sawCache |-> 0, sawRules |-> 0, out |-> 0, retCfg |-> 0,
             counted |-> 0]

\* a hook calls c.relabel with a live or a stale sample of the series
RelabelCall(g, stale) ==
    /\ kpc[g] = "idle"
    /\ rc.calls < MaxCalls
    /\ kpc' = [kpc EXCEPT ![g] = "rlock"]
    /\ rc' = [rc EXCEPT !.calls = @ + 1]
    /\ loc' = [loc EXCEPT ![g] = [NoLocals EXCEPT !.stale = stale]]
    /\ UNCHANGED <<mut, cacheMut>>
    /\ UNCHANGED notConc

\* An RLock that does not wait for the writer.
RelabelRLockPastWriter(g) ==
    /\ kpc[g] = "rlock"
    /\ mut' = [mut EXCEPT !.readers = @ \cup {g}]
    /\ kpc' = [kpc EXCEPT ![g] = "get"]
    /\ UNCHANGED <<cacheMut, rc, loc>>
    /\ UNCHANGED notConc

\* relabel, lines 228-229: c.mut.RLock() returns once no writer holds the
\* lock or waits for it
RelabelRLock(g) ==
    /\ kpc[g] = "rlock"
    /\ ~mut.writer
    /\ ~mut.pending
    /\ mut' = [mut EXCEPT !.readers = @ \cup {g}]
    /\ kpc' = [kpc EXCEPT ![g] = "get"]
    /\ UNCHANGED <<cacheMut, rc, loc>>
    /\ UNCHANGED notConc

\* c.cacheMut.RLock() of getFromCache (write = FALSE), c.cacheMut.Lock() of
\* addToCache, deleteFromCache and clearCache (write = TRUE)
CacheMutLock(g, from, to, write) ==
    /\ kpc[g] = from
    /\ cacheMut.writer = ""
    /\ write => cacheMut.readers = {}
    /\ cacheMut' = IF write THEN [cacheMut EXCEPT !.writer = g]
                   ELSE [cacheMut EXCEPT !.readers = @ \cup {g}]
    /\ kpc' = [kpc EXCEPT ![g] = to]
    /\ UNCHANGED <<mut, rc, loc>>
    /\ UNCHANGED notConc

\* A getFromCache that returns without c.cacheMut.RUnlock().
RelabelGetKeepsRLock(g) ==
    /\ kpc[g] = "getting"
    /\ LET found == TheSeries \in DOMAIN rc.cache
       IN  /\ loc' = [loc EXCEPT ![g].found = found,
                                 ![g].newSeries = IF found THEN rc.cache[TheSeries] ELSE 0,
                                 ![g].sawCache = rc.made,
                                 ![g].counted = IF found THEN @ + 1 ELSE @]
           /\ rc' = [rc EXCEPT !.hits = IF found THEN @ + 1 ELSE @]
           /\ kpc' = [kpc EXCEPT ![g] = IF ~found THEN "process"
                                        ELSE IF loc[g].stale THEN "del" ELSE "ret"]
    /\ UNCHANGED <<mut, cacheMut>>
    /\ UNCHANGED notConc

\* getFromCache's c.cache.Get and RUnlock, then lines 237-243 of relabel:
\* on a hit the entry is what relabel returns, after deleteFromCache when
\* the sample is stale
RelabelGet(g) ==
    /\ kpc[g] = "getting"
    /\ LET found == TheSeries \in DOMAIN rc.cache
       IN  /\ loc' = [loc EXCEPT ![g].found = found,
                                 ![g].newSeries = IF found THEN rc.cache[TheSeries] ELSE 0,
                                 ![g].sawCache = rc.made,
                                 ![g].counted = IF found THEN @ + 1 ELSE @]
           /\ rc' = [rc EXCEPT !.hits = IF found THEN @ + 1 ELSE @]
           /\ kpc' = [kpc EXCEPT ![g] = IF ~found THEN "process"
                                        ELSE IF loc[g].stale THEN "del" ELSE "ret"]
    /\ cacheMut' = [cacheMut EXCEPT !.readers = @ \ {g}]
    /\ UNCHANGED mut
    /\ UNCHANGED notConc

\* A miss path that applies the rules and leaves the miss counter alone.
RelabelProcessUncounted(g) ==
    /\ kpc[g] = "process"
    /\ loc' = [loc EXCEPT ![g].newSeries = rc.mrc, ![g].sawRules = rc.mrc]
    /\ rc' = [rc EXCEPT !.processed = @ + 1]
    /\ kpc' = [kpc EXCEPT ![g] = "add"]
    /\ UNCHANGED <<mut, cacheMut>>
    /\ UNCHANGED notConc

\* lines 244-248: relabel.Process with c.mrc, c.cacheMisses.Inc(),
\* ConvertToSeries
RelabelProcess(g) ==
    /\ kpc[g] = "process"
    /\ loc' = [loc EXCEPT ![g].newSeries = rc.mrc, ![g].sawRules = rc.mrc,
                          ![g].counted = @ + 1]
    /\ rc' = [rc EXCEPT !.processed = @ + 1, !.misses = @ + 1]
    /\ kpc' = [kpc EXCEPT ![g] = "add"]
    /\ UNCHANGED <<mut, cacheMut>>
    /\ UNCHANGED notConc

\* addToCache's c.cache.Add and Unlock
RelabelAdd(g) ==
    /\ kpc[g] = "adding"
    /\ rc' = [rc EXCEPT !.cache = Put(@, TheSeries, loc[g].newSeries)]
    /\ cacheMut' = [cacheMut EXCEPT !.writer = ""]
    /\ kpc' = [kpc EXCEPT ![g] = IF loc[g].stale THEN "del" ELSE "ret"]
    /\ UNCHANGED <<mut, loc>>
    /\ UNCHANGED notConc

\* deleteFromCache's c.cache.Remove and Unlock
RelabelDelete(g) ==
    /\ kpc[g] = "deleting"
    /\ rc' = [rc EXCEPT !.cache = Drop(@, TheSeries)]
    /\ cacheMut' = [cacheMut EXCEPT !.writer = ""]
    /\ kpc' = [kpc EXCEPT ![g] = "ret"]
    /\ UNCHANGED <<mut, loc>>
    /\ UNCHANGED notConc

\* relabel returns newSeries and the deferred c.mut.RUnlock() runs
RelabelRUnlock(g) ==
    /\ kpc[g] = "ret"
    /\ mut' = [mut EXCEPT !.readers = @ \ {g}]
    /\ loc' = [loc EXCEPT ![g].out = loc[g].newSeries, ![g].retCfg = rc.mrc]
    /\ rc' = [rc EXCEPT !.completed = @ + 1]
    /\ kpc' = [kpc EXCEPT ![g] = "idle"]
    /\ UNCHANGED cacheMut
    /\ UNCHANGED notConc

\* Update, line 214: c.mut.Lock() is called; from now on no new reader gets
\* the lock
UpdateLock ==
    /\ kpc["u"] = "idle"
    /\ rc.calls < MaxCalls
    /\ mut' = [mut EXCEPT !.pending = TRUE]
    /\ rc' = [rc EXCEPT !.calls = @ + 1]
    /\ kpc' = [kpc EXCEPT !["u"] = "waiting"]
    /\ UNCHANGED <<cacheMut, loc>>
    /\ UNCHANGED notConc

\* c.mut.Lock() returns once the readers have left
UpdateLocked ==
    /\ kpc["u"] = "waiting"
    /\ mut.readers = {}
    /\ mut' = [mut EXCEPT !.pending = FALSE, !.writer = TRUE]
    /\ kpc' = [kpc EXCEPT !["u"] = "clear"]
    /\ UNCHANGED <<cacheMut, rc, loc>>
    /\ UNCHANGED notConc

\* clearCache's lru.New, c.cache = cache and Unlock
UpdateClearCache ==
    /\ kpc["u"] = "clearing"
    /\ rc' = [rc EXCEPT !.cache = EmptyMap, !.made = rc.mrc + 1]
    /\ cacheMut' = [cacheMut EXCEPT !.writer = ""]
    /\ kpc' = [kpc EXCEPT !["u"] = "rules"]
    /\ UNCHANGED <<mut, loc>>
    /\ UNCHANGED notConc

\* line 219: c.mrc = the rules of the new arguments
UpdateRules ==
    /\ kpc["u"] = "rules"
    /\ rc' = [rc EXCEPT !.mrc = rc.made]
    /\ kpc' = [kpc EXCEPT !["u"] = "unlock"]
    /\ UNCHANGED <<mut, cacheMut, loc>>
    /\ UNCHANGED notConc

\* lines 220-224: UpdateChildren, OnStateChange, return; the deferred
\* c.mut.Unlock() runs
UpdateUnlock ==
    /\ kpc["u"] = "unlock"
    /\ mut' = [mut EXCEPT !.writer = FALSE]
    /\ kpc' = [kpc EXCEPT !["u"] = "idle"]
    /\ UNCHANGED <<cacheMut, rc, loc>>
    /\ UNCHANGED notConc

\* New has returned: the rules and the empty cache of the first
\* configuration, no call under way.
ConcInit ==
    /\ kpc = [g \in Relabelers \cup {"u"} |-> "idle"]
    /\ mut = [writer |-> FALSE, pending |-> FALSE, readers |-> {}]
    /\ cacheMut = [writer |-> "", readers |-> {}]
    /\ rc = [mrc |-> 1, made |-> 1, cache |-> EmptyMap, calls |-> 0,
             hits |-> 0, misses |-> 0, processed |-> 0, completed |-> 0]
    /\ loc = [g \in Relabelers |-> NoLocals]
    /\ RelabelIdle
    /\ UnregIdle
    /\ ImportIdle
    /\ RaceIdle
    /\ RunIdle
    /\ ConsumerIdle
    /\ LoaderIdle

ConcNext ==
    \/ \E g \in Relabelers : \E stale \in BOOLEAN : RelabelCall(g, stale)
    \/ \E g \in Relabelers : RelabelRLock(g)
    \/ \E g \in Relabelers : CacheMutLock(g, "get", "getting", FALSE)
    \/ \E g \in Relabelers : RelabelGet(g)
    \/ \E g \in Relabelers : RelabelProcess(g)
    \/ \E g \in Relabelers : CacheMutLock(g, "add", "adding", TRUE)
    \/ \E g \in Relabelers : RelabelAdd(g)
    \/ \E g \in Relabelers : CacheMutLock(g, "del", "deleting", TRUE)
    \/ \E g \in Relabelers : RelabelDelete(g)
    \/ \E g \in Relabelers : RelabelRUnlock(g)
    \/ UpdateLock
    \/ UpdateLocked
    \/ CacheMutLock("u", "clear", "clearing", TRUE)
    \/ UpdateClearCache
    \/ UpdateRules
    \/ UpdateUnlock

SpecRelabelConc == ConcInit /\ [][ConcNext]_vars

\* the goroutine is inside relabel, holding c.mut for reading
InRelabel(g) == kpc[g] \notin {"idle", "rlock"}

\* Update holds c.mut
InUpdate == kpc["u"] \in {"clear", "clearing", "rules", "unlock"}

\* C30: Update and relabel never overlap.  While a relabel call is under
\* way no Update holds c.mut, the cache and the rules belong to one and the
\* same configuration, and what the call has read from the cache, read from
\* the rules and computed belongs to it; outside Update every cache entry
\* was computed with the rules in force, and what a relabel call returned
\* was computed with the rules in force when it returned.
C30_UpdateExcludesRelabel ==
    /\ InUpdate => \A g \in Relabelers : ~InRelabel(g)
    /\ \A g \in Relabelers :
         InRelabel(g) =>
            /\ rc.made = rc.mrc
            /\ loc[g].sawCache \in {0, rc.made}
            /\ loc[g].sawRules \in {0, rc.mrc}
            /\ loc[g].newSeries \in {0, rc.mrc}
    /\ ~InUpdate => \A id \in DOMAIN rc.cache : rc.cache[id] = rc.mrc
    /\ \A g \in Relabelers : loc[g].out \in {0, loc[g].retCfg}

\* An Update has returned; since then one sender has got an entry computed
\* with the new rules while the other is inside relabel.
C30_Witness ==
    /\ rc.mrc = 2
    /\ \E g \in Relabelers :
         /\ loc[g].out = 2
         /\ \E h \in Relabelers \ {g} : InRelabel(h)

\* the steps of the relabel call that goroutine g has under way
RelabelStep(g) ==
    \/ RelabelRLock(g)
    \/ CacheMutLock(g, "get", "getting", FALSE)
    \/ RelabelGet(g)
    \/ RelabelProcess(g)
    \/ CacheMutLock(g, "add", "adding", TRUE)
    \/ RelabelAdd(g)
    \/ CacheMutLock(g, "del", "deleting", TRUE)
    \/ RelabelDelete(g)
    \/ RelabelRUnlock(g)

\* the steps of the Update call under way
UpdateStep ==
    \/ UpdateLocked
    \/ CacheMutLock("u", "clear", "clearing", TRUE)
    \/ UpdateClearCache
    \/ UpdateRules
    \/ UpdateUnlock

\* Every goroutine that can take the next step of its call takes it: the
\* Go scheduler runs each runnable goroutine, and a lock that is free is
\* given to one that waits for it.
SpecRelabelConcFair ==
    /\ ConcInit
    /\ [][ConcNext]_vars
    /\ \A g \in Relabelers : WF_vars(RelabelStep(g))
    /\ WF_vars(UpdateStep)

\* goroutine g holds c.cacheMut / c.mut
HoldsCacheMut(g) == cacheMut.writer = g \/ g \in cacheMut.readers
HoldsMut(g) == IF g = "u" THEN mut.writer ELSE g \in mut.readers

\* c.mut is taken before c.cacheMut, and no goroutine that holds c.cacheMut
\* is acquiring c.mut
LockOrder ==
    \A g \in Relabelers \cup {"u"} :
        HoldsCacheMut(g) => HoldsMut(g) /\ kpc[g] \notin {"idle", "rlock", "waiting"}

\* C38: c.mut is always taken before c.cacheMut and never acquired while
\* c.cacheMut is held, and every relabel call and every Update call that is
\* under way returns.
C38_NoDeadlock ==
    /\ []LockOrder
    /\ \A g \in Relabelers \cup {"u"} : (kpc[g] # "idle") ~> (kpc[g] = "idle")

\* Update waits for c.mut, which one relabel call holds while it holds
\* c.cacheMut for writing; the other relabel call waits for c.mut behind
\* Update.
C38_Witness ==
    /\ kpc["u"] = "waiting"
    /\ cacheMut.writer = "p1"
    /\ kpc["p2"] = "rlock"

\* the relabel calls under way that have incremented a counter
CountedUnderWay == {g \in Relabelers : InRelabel(g) /\ loc[g].counted > 0}

\* C35: under every interleaving a relabel call increments exactly one of
\* the hit counter and the miss counter, once, before it returns, so that
\* hits + misses is the number of completed calls (plus the calls under way
\* that have counted already), and the rules have been applied once for
\* every miss counted.
C35_OneCounterPerCall ==
    /\ \A g \in Relabelers :
          /\ loc[g].counted <= 1
          /\ kpc[g] = "ret" => loc[g].counted = 1
    /\ rc.hits + rc.misses = rc.completed + Cardinality(CountedUnderWay)
    /\ rc.processed = rc.misses

\* Two calls for the same series have overlapped under one configuration:
\* both missed and both have returned; a third call hit.
C35_Witness ==
    /\ rc.made = 1
    /\ rc.misses = 2
    /\ rc.hits = 1
    /\ rc.completed = 3
    /\ \A g \in Relabelers : ~loc[g].stale

(***************************************************************************)
(* Hot reload: the import nodes, the module files and what the controller  *)
(* does with the import node's notifications                               *)
(*                                                                         *)
(* The configuration has the import block of node 1, one component built   *)
(* from the declare it names (ctl.name: "a" of the imported file, or "a"   *)
(* of the file that file imports, "m.a") and a consumer of that            *)
(* component's export.  LoadSource is called once, before Run; afterwards  *)
(* only the module files change.                                           *)
(***************************************************************************)
\* the declare bodies written to the module files
ReloadBodies == Bodies \cup {<<"y", " ">>}

ReloadTexts(f) ==
    IF f = "r"
    THEN {DeclareText("a", b) : b \in ReloadBodies} \cup {ImportText("m")}
    ELSE {DeclareText("a", b) : b \in ReloadBodies}

\* The value exported by the component that is built from a declare body:
\* blanks at the end of the body do not change it.
RECURSIVE ExportOf(_)
ExportOf(body) ==
    IF body # << >> /\ body[Len(body)] = " "
    THEN ExportOf(SubSeq(body, 1, Len(body) - 1))
    ELSE body

\* the consumer has seen no value
NoValue == <<"?">>

\* A module file is rewritten while the controller runs.
RewriteFile(f, text) ==
    /\ ictl.running
    /\ WriteFile(f, text)

\* Controller.Run after a LoadSource that evaluated node 1: Run of node 1
ControllerRun ==
    /\ nodes[Root].seen # NoFile
    /\ StartRun

\* Runtime re-evaluation: node 1 has signalled a change, the controller
\* re-evaluates the component built from the declare and then its
\* dependents, which see its new export.  A re-evaluation that fails (the
\* node does not publish the name) leaves everything as it was.
ControllerReevaluate ==
    /\ ~ictl.crashed
    /\ ictl.notified > ctl.handled
    /\ LET r == ModuleContent(nodes[Root], ctl.name)
       IN  ctl' = [ctl EXCEPT !.handled = ictl.notified,
                              !.observed = IF r.err THEN @ ELSE ExportOf(r.content)]
    /\ UNCHANGED notConsumer

\* The module files exist, the configuration's import block has been built
\* and nothing has been evaluated yet.  File r holds a declare or imports
\* file m, which holds a declare.
ReloadInit ==
    /\ files \in {[r |-> t, m |-> DeclareText("a", <<"x", " ">>), n |-> NoFile] :
                     t \in {DeclareText("a", <<"x", " ">>), ImportText("m")}}
    /\ nodes = <<NewImportConfigNode("r", 0)>>
    /\ ictl = [notified |-> 0, steps |-> 0, writes |-> 0,
               running |-> FALSE, crashed |-> FALSE]
    /\ ilast = NoICall
    /\ ctl \in {[name |-> nm, handled |-> 0, observed |-> NoValue] : nm \in {"a", "m.a"}}
    /\ RelabelIdle
    /\ UnregIdle
    /\ RaceIdle
    /\ RunIdle
    /\ ConcIdle
    /\ LoaderIdle

ReloadNext ==
    \/ \E f \in {"r", "m"} : \E text \in ReloadTexts(f) : RewriteFile(f, text)
    \/ \E id \in NodeIds : ContentChange(id)
    \/ ControllerRun
    \/ ControllerReevaluate

\* a source that has a revision to deliver delivers it
ReloadProgress == \E id \in NodeIds : ContentChange(id)

\* ReloadProgress is enabled
ProgressPending == \E id \in NodeIds : ContentPending(id)

\* A source that runs goes on polling its file (weak fairness of
\* ReloadProgress, written with its enabling condition), and the controller
\* goes on handling the notifications it has got.  As the files are written
\* a bounded number of times, each source and the controller get their turn.
SpecReload ==
    /\ ReloadInit
    /\ [][ReloadNext]_vars
    /\ ([]<>(~ProgressPending) \/ []<><<ReloadProgress>>_vars)
    /\ WF_vars(ControllerReevaluate)

\* node 1 publishes under name a body that exports what body b exports
Carries(name, b) ==
    LET r == ModuleContent(nodes[Root], name)
    IN  ~r.err /\ ExportOf(r.content) = ExportOf(b)

\* the text is a declare "a" with one of the bodies, and that body
IsDeclare(text) == \E b \in ReloadBodies : text = DeclareText("a", b)
BodyOf(text) == CHOOSE b \in ReloadBodies : text = DeclareText("a", b)

\* C21: while the controller runs and the configuration uses declare "a" of
\* the imported file, a declare body written to that file is eventually
\* published by node 1 and the consumer eventually sees the value that body
\* exports, with no LoadSource call (unless the file has come to hold
\* something else than a declare).
C21_HotReload ==
    (ictl.running /\ ctl.name = "a" /\ IsDeclare(files["r"]))
        ~> (IsDeclare(files["r"]) =>
               /\ Carries("a", BodyOf(files["r"]))
               /\ ctl.observed = ExportOf(BodyOf(files["r"])))

\* the imported file consists of an import of file m, and m holds a
\* declare whose body ends in a blank
ImportsBlankEnded ==
    /\ files["r"] = ImportText("m")
    /\ \E b \in ReloadBodies :
           /\ files["m"] = DeclareText("a", b)
           /\ b # << >>
           /\ b[Len(b)] = " "

\* C22: while the controller runs, the imported file consists of an import
\* of file m and the configuration uses declare "a" of m through node 1, a
\* declare body written to m is eventually published by node 1 as "m.a"
\* and seen by the consumer, with no LoadSource call (unless the files
\* have come to hold something else).  Stated for the bodies that end in a
\* blank.
C22_NestedReload ==
    (ictl.running /\ ctl.name = "m.a" /\ ImportsBlankEnded)
        ~> (ImportsBlankEnded =>
               /\ Carries("m.a", BodyOf(files["m"]))
               /\ ctl.observed = ExportOf(BodyOf(files["m"])))

(***************************************************************************)
(* The loader of the controller (spec 4.F, Loading): claims C23, C24.      *)
(* A source is a set of blocks and the references between them; an edge    *)
(* <<a, b>> says that block b references the exports of block a.           *)
(***************************************************************************)

\* the blocks a source can hold
Blocks == {"a", "b", "c"}

\* the references a source can make
References == {<<"a", "b">>, <<"b", "c">>, <<"c", "a">>, <<"a", "c">>}

\* the number of LoadSource calls
MaxLoads == 2

Sources ==
    {[nodes |-> ns, edges |-> es] :
        ns \in SUBSET Blocks \ {{}},
        es \in SUBSET References}

\* a source refers only to its own blocks
WellFormed(src) == \A e \in src.edges : e[1] \in src.nodes /\ e[2] \in src.nodes

\* one more step of every path
PathStep(R) ==
    R \cup {p \in Blocks \X Blocks :
               \E y \in Blocks : <<p[1], y>> \in R /\ <<y, p[2]>> \in R}

RECURSIVE Paths(_)
Paths(R) == IF PathStep(R) = R THEN R ELSE Paths(PathStep(R))

\* the edge set contains a cycle
Cyclic(edges) == \E n \in Blocks : <<n, n>> \in Paths(edges)

NoLoad ==
    [phase |-> "idle", loads |-> 0, src |-> [nodes |-> {}, edges |-> {}],
     added |-> {}, removed |-> {}, before |-> [nodes |-> {}, edges |-> {}, running |-> {}],
     evaluated |-> {}, failed |-> {}, current |-> "", log |-> << >>, ret |-> "none"]

\* LoadSource, steps 1 to 5: the blocks are identified, the diff against
\* the current node set is computed, the added nodes are constructed and
\* nothing of the running graph has changed yet.
LoadSource(src) ==
    /\ load.phase = "idle"
    /\ load.loads < MaxLoads
    /\ WellFormed(src)
    /\ load' = [NoLoad EXCEPT !.phase = "diffed",
                              !.loads = load.loads + 1,
                              !.src = src,
                              !.added = src.nodes \ graph.nodes,
                              !.removed = graph.nodes \ src.nodes,
                              !.before = graph]
    /\ UNCHANGED graph
    /\ UNCHANGED notLoader

\* Step 6 with a cyclic edge set, mutated: the load fails after the graph
\* has taken the nodes of the source and the removed nodes were stopped.
LoadFailCycleAfterCommit ==
    /\ load.phase = "diffed"
    /\ Cyclic(load.src.edges)
    /\ graph' = [nodes |-> load.src.nodes, edges |-> graph.edges,
                 running |-> graph.running \ load.removed]
    /\ load' = [load EXCEPT !.phase = "idle", !.ret = "GraphCycle"]
    /\ UNCHANGED notLoader

\* Step 6 with a cyclic edge set: the load fails without mutating the
\* running set, the previous graph is retained.
LoadFailCycle ==
    /\ load.phase = "diffed"
    /\ Cyclic(load.src.edges)
    /\ load' = [load EXCEPT !.phase = "idle", !.ret = "GraphCycle"]
    /\ UNCHANGED graph
    /\ UNCHANGED notLoader

\* Steps 3 to 6 with an acyclic edge set: the removed nodes are stopped,
\* the graph takes the nodes and the edges of the source.
LoadCommit ==
    /\ load.phase = "diffed"
    /\ ~Cyclic(load.src.edges)
    /\ graph' = [nodes |-> load.src.nodes, edges |-> load.src.edges,
                 running |-> graph.running \ load.removed]
    /\ load' = [load EXCEPT !.phase = "evaluate"]
    /\ UNCHANGED notLoader

\* every node that n references has been evaluated
ReferencesEvaluated(n) ==
    \A e \in graph.edges : e[2] = n => e[1] \in load.evaluated

\* Step 7, mutated: the evaluation of a node begins whatever it references.
EvaluateBeginAnyOrder(n) ==
    /\ load.phase = "evaluate"
    /\ load.current = ""
    /\ n \in graph.nodes \ load.evaluated
    /\ load' = [load EXCEPT !.current = n,
                            !.log = Append(load.log, <<"begin", n>>)]
    /\ UNCHANGED graph
    /\ UNCHANGED notLoader

\* Step 7: the evaluation of a node begins after all nodes it references
\* have been evaluated.
EvaluateBegin(n) ==
    /\ load.phase = "evaluate"
    /\ load.current = ""
    /\ n \in graph.nodes \ load.evaluated
    /\ ReferencesEvaluated(n)
    /\ load' = [load EXCEPT !.current = n,
                            !.log = Append(load.log, <<"begin", n>>)]
    /\ UNCHANGED graph
    /\ UNCHANGED notLoader

\* Step 7: the evaluation of a node ends; a failure is recorded and blocks
\* nothing.
EvaluateEnd(n, ok) ==
    /\ load.phase = "evaluate"
    /\ load.current = n
    /\ load' = [load EXCEPT !.current = "",
                            !.evaluated = load.evaluated \cup {n},
                            !.failed = IF ok THEN load.failed ELSE load.failed \cup {n},
                            !.log = Append(load.log, <<"end", n>>)]
    /\ UNCHANGED graph
    /\ UNCHANGED notLoader

\* Step 8: the added nodes whose evaluation succeeded are started and
\* LoadSource returns.
LoadStart ==
    /\ load.phase = "evaluate"
    /\ load.current = ""
    /\ load.evaluated = graph.nodes
    /\ graph' = [graph EXCEPT !.running = graph.running \cup (load.added \ load.failed)]
    /\ load' = [load EXCEPT !.phase = "idle", !.ret = "ok"]
    /\ UNCHANGED notLoader

\* A new controller: the graph is empty and nothing runs.
LoaderInit ==
    /\ graph = [nodes |-> {}, edges |-> {}, running |-> {}]
    /\ load = NoLoad
    /\ RelabelIdle
    /\ UnregIdle
    /\ ImportIdle
    /\ RaceIdle
    /\ RunIdle
    /\ ConcIdle
    /\ ConsumerIdle

LoaderNext ==
    \/ \E src \in Sources : LoadSource(src)
    \/ LoadFailCycle
    \/ LoadCommit
    \/ \E n \in Blocks : EvaluateBegin(n)
    \/ \E n \in Blocks : \E ok \in BOOLEAN : EvaluateEnd(n, ok)
    \/ LoadStart

SpecLoader == LoaderInit /\ [][LoaderNext]_vars

\* the position of an event in the log of the load, 0 when it is not there
Position(event) ==
    IF \E i \in DOMAIN load.log : load.log[i] = event
    THEN CHOOSE i \in DOMAIN load.log : load.log[i] = event
    ELSE 0

\* C23: on a load of an acyclic source, whenever the evaluation of a node b
\* that references a has begun, the evaluation of a has ended before it
\* began.
C23_TopologicalEvaluation ==
    (load.phase = "evaluate" \/ load.ret = "ok") =>
        \A e \in load.src.edges :
            Position(<<"begin", e[2]>>) > 0 =>
                /\ Position(<<"end", e[1]>>) > 0
                /\ Position(<<"end", e[1]>>) < Position(<<"begin", e[2]>>)

\* a full load of a chain of three nodes has returned, the evaluation of
\* the middle node failed
C23_Witness ==
    /\ load.ret = "ok"
    /\ load.src.nodes = Blocks
    /\ load.src.edges = {<<"a", "b">>, <<"b", "c">>}
    /\ load.failed = {"b"}
    /\ Len(load.log) = 6

\* C24: a LoadSource of a source with a cycle returns GraphCycle, and when
\* it has returned GraphCycle the nodes, the edges and the running
\* components are those of before the call and no node that the source
\* adds is running.
C24_CycleRejected ==
    /\ (load.phase = "idle" /\ load.loads > 0 /\ Cyclic(load.src.edges))
           => load.ret = "GraphCycle"
    /\ load.ret = "GraphCycle" =>
           /\ Cyclic(load.src.edges)
           /\ graph.nodes = load.before.nodes
           /\ graph.edges = load.before.edges
           /\ graph.running = load.before.running
           /\ load.added \cap graph.running = {}

\* a reload with a cycle was rejected while components were running; the
\* rejected source adds a node and removes a running one
C24_Witness ==
    /\ load.ret = "GraphCycle"
    /\ load.loads = 2
    /\ load.added # {}
    /\ load.removed \cap graph.running # {}

(***************************************************************************)
(* The relabel cache under longer runs of append calls: claim C31.         *)
(* The component of SpecRelabel with one rule set, the append hook and     *)
(* Update called with a new max_cache_size.                                *)
(***************************************************************************)

\* calls made on the component
MaxLruCalls == 4

\* the rules in force: series with env = "dev" are dropped (cached as nil),
\* the others are kept
LruRules == << Rule("drop", "env", "dev"), Rule("replace", "job", "x") >>

\* New with max_cache_size cacheCap and the rules LruRules
LruInit ==
    /\ mrc = LruRules
    /\ cacheCap \in 1..MaxCacheSize
    /\ cache = << >>
    /\ cacheHits = 0
    /\ cacheMisses = 0
    /\ cacheDeletes = 0
    /\ cacheSize = 0
    /\ metricsOutgoing = 0
    /\ exited = FALSE
    /\ last = NoCall
    /\ hist = [calls |-> 0, updated |-> FALSE, ids |-> {}, stale |-> FALSE, used |-> << >>]
    /\ UnregIdle
    /\ ImportIdle
    /\ RaceIdle
    /\ RunIdle
    /\ ConcIdle
    /\ ConsumerIdle
    /\ LoaderIdle

\* the append hook is called with a sample
AppendSample(series) ==
    /\ hist.calls < MaxLruCalls
    /\ HookCall("append", series)

\* Update with the same rules and a max_cache_size
UpdateCacheSize(size) ==
    /\ hist.calls < MaxLruCalls
    /\ UpdateCall(mrc, size)

LruNext ==
    \/ \E series \in InputSeries : AppendSample(series)
    \/ \E size \in 1..MaxCacheSize : UpdateCacheSize(size)

SpecRelabelLru == LruInit /\ [][LruNext]_vars

\* the fingerprint in the cache whose last use by a relabel call is the
\* oldest
LeastRecentlyUsed ==
    LET inCache == SelectSeq(hist.used, LAMBDA x : x \in Keys(cache))
    IN  inCache[Len(inCache)]

\* the step is a relabel call that missed while the cache was full
MissedOnFull ==
    /\ RanRelabel'
    /\ hist'.calls = hist.calls + 1
    /\ ~last'.hit
    /\ Len(cache) = cacheCap

\* C31: the cache never holds more entries than max_cache_size; a relabel
\* call that adds an entry for a new fingerprint to a full cache evicts the
\* fingerprint whose last use (a lookup that hit, or an add) is the oldest,
\* and no other (a stale marker's own entry is then deleted again).
C31_LruCache ==
    [][ /\ Len(cache) <= cacheCap
        /\ Len(cache') <= cacheCap'
        /\ MissedOnFull =>
              Keys(cache') =
                 ((Keys(cache) \ {LeastRecentlyUsed}) \cup {last'.series.GlobalID})
                    \ (IF IsStaleNaN(last'.series.Value)
                       THEN {last'.series.GlobalID} ELSE {}) ]_vars

\* In a cache of two entries, the entry added first was looked up again
\* before a third fingerprint arrived: the entry added second was evicted.
C31_Witness ==
    /\ cacheCap = 2
    /\ hist.calls = 4
    /\ cacheHits = 1
    /\ cacheMisses = 3
    /\ Keys(cache) = {1, 3}
    /\ hist.used = <<3, 1, 2>>

====
